---------------------------- MODULE Spec2Model ----------------------------
(***************************************************************************)
(* The NFT dapp front end (src/src/app/page.tsx, NFTCard.tsx) as a state   *)
(* machine: the page's React state, the reconciliation passes              *)
(* (loadAllMyNFTs, loadAllNFTs, loadApprovedNFTs, fetchTokenById) and the  *)
(* write handlers.  Every await of the source is a point where the         *)
(* handler is suspended; the code between two awaits is one atomic action. *)
(* The chain is the environment: what a read returns (a value or a         *)
(* rejection) is an input chosen when the read settles.                    *)
(***************************************************************************)
EXTENDS Integers, Sequences, FiniteSets, TLC

(***************************************************************************)
(* Bounds of the model.                                                    *)
(***************************************************************************)
MaxEvents == 2

MaxPasses == 1

MaxClicks == 1

(***************************************************************************)
(* Values.  A string of the program whose characters matter (a token id)   *)
(* is a sequence of one-character strings; addresses are TLA+ strings in   *)
(* the two spellings the program meets: lower case from the wallet         *)
(* (eth_accounts), checksum case from decoded contract results.            *)
(***************************************************************************)
Accounts == {"0xA", "0xB"}

ZeroAddress == "0x0"

WalletAccounts == {"0xa"}

TokenIds == {0, 9, 10}

TokenURIs == {"ipfs://QmMeta"}

ErrorMessages == {"", "provider error"}

\* String.prototype.toLowerCase on the address spellings of the model.
ToLowerCase(s) ==
  CASE s = "0xA" -> "0xa"
    [] s = "0xB" -> "0xb"
    [] OTHER -> s

Digit(d) ==
  CASE d = 0 -> "0" [] d = 1 -> "1" [] d = 2 -> "2" [] d = 3 -> "3"
    [] d = 4 -> "4" [] d = 5 -> "5" [] d = 6 -> "6" [] d = 7 -> "7"
    [] d = 8 -> "8" [] d = 9 -> "9"

DigitValue(c) ==
  CASE c = "0" -> 0 [] c = "1" -> 1 [] c = "2" -> 2 [] c = "3" -> 3
    [] c = "4" -> 4 [] c = "5" -> 5 [] c = "6" -> 6 [] c = "7" -> 7
    [] c = "8" -> 8 [] c = "9" -> 9

\* bigint.toString(): the decimal digits, most significant first.
RECURSIVE BigIntToString(_)
BigIntToString(n) ==
  IF n < 10 THEN <<Digit(n)>>
  ELSE Append(BigIntToString(n \div 10), Digit(n % 10))

\* BigInt(string) on a decimal string.
RECURSIVE BigInt(_)
BigInt(s) ==
  IF Len(s) = 0 THEN 0
  ELSE 10 * BigInt(SubSeq(s, 1, Len(s) - 1)) + DigitValue(s[Len(s)])

Range(f) == {f[i] : i \in DOMAIN f}

\* Set.prototype.add on a Set kept in insertion order (Array.from order).
SetAdd(set, x) == IF x \in Range(set) THEN set ELSE Append(set, x)

\* alert(error.message || fallback)
AlertText(message, fallback) == IF message = "" THEN fallback ELSE message

(***************************************************************************)
(* Transfer events as the front end reads them: args.to (checksum case)    *)
(* and args.tokenId (a bigint).  args.from is never read by the passes,    *)
(* and args.to only by loadAllMyNFTs, whose filter selects the events      *)
(* received by the connected account.                                      *)
(***************************************************************************)
\* The receivers of the events of the log the node serves.
EventReceivers == {"0xA"}

Events == [to : EventReceivers, tokenId : TokenIds]

RECURSIVE SeqsUpTo(_, _)
SeqsUpTo(S, n) ==
  IF n = 0 THEN {<<>>}
  ELSE LET shorter == SeqsUpTo(S, n - 1)
       IN  shorter \cup {Append(q, x) : q \in {r \in shorter : Len(r) = n - 1}, x \in S}

EventLogs == SeqsUpTo(Events, MaxEvents)


(***************************************************************************)
(* Outcomes of a chain read: the value it resolved to, Reject when the     *)
(* promise rejected, Unread while it has not been observed.                *)
(***************************************************************************)
Reject == "<rejected>"

Unread == "<unread>"

\* How an await whose value the model leaves out settles: Resolve, or the
\* message of the error it rejected with.
Resolve == "<resolved>"

Settlements == ErrorMessages \cup {Resolve}

\* null, where a record, a string or a text (a sequence) is expected.
Null == [null |-> TRUE]

NullString == "<null>"

NullText == <<"<null>">>

\* alert() texts of page.tsx, by the place that raises them.
AlertConnectFirst == "connect the wallet first"

AlertNoProvider == "install and enable MetaMask"

AlertMyQueryFailed == "NFT query failed"

AlertAllQueryFailed == "all-NFT query failed"

AlertApprovedQueryFailed == "approved-NFT query failed"

AlertEnterTokenId == "enter a token id"

AlertTokenQueryFailed == "token query failed"

(***************************************************************************)
(* The sort comparator of loadAllNFTs and loadApprovedNFTs, and            *)
(* Array.prototype.sort (a stable sort) as an insertion sort.              *)
(***************************************************************************)
RECURSIVE LexLess(_, _)
LexLess(s, t) ==
  IF Len(t) = 0 THEN FALSE
  ELSE IF Len(s) = 0 THEN TRUE
  ELSE IF DigitValue(s[1]) # DigitValue(t[1]) THEN DigitValue(s[1]) < DigitValue(t[1])
  ELSE LexLess(Tail(s), Tail(t))

CompareLexical(a, b) ==
  IF a.tokenId = b.tokenId THEN 0
  ELSE IF LexLess(a.tokenId, b.tokenId) THEN 1 ELSE -1

CompareTokenIdDesc(a, b) ==
  LET diff == BigInt(b.tokenId) - BigInt(a.tokenId)
  IN  IF diff = 0 THEN 0 ELSE IF diff > 0 THEN 1 ELSE -1

RECURSIVE InsertSorted(_, _)
InsertSorted(sorted, x) ==
  IF Len(sorted) = 0 THEN <<x>>
  ELSE IF CompareTokenIdDesc(sorted[Len(sorted)], x) <= 0 THEN Append(sorted, x)
  ELSE Append(InsertSorted(SubSeq(sorted, 1, Len(sorted) - 1), x), sorted[Len(sorted)])

RECURSIVE ArraySort(_)
ArraySort(arr) ==
  IF Len(arr) = 0 THEN <<>>
  ELSE InsertSorted(ArraySort(SubSeq(arr, 1, Len(arr) - 1)), arr[Len(arr)])

\* (await Promise.all(nftPromises)).filter((nft) => nft !== null)
NonNull(task) == SelectSeq([i \in DOMAIN task |-> task[i].ret], LAMBDA r : r # Null)

\* Map.prototype.set
MapSet(map, k, v) == [x \in (DOMAIN map) \cup {k} |-> IF x = k THEN v ELSE map[x]]

EmptyMap == [x \in {} |-> FALSE]

\* The key of ownerApprovalCache: ownerLower (page.tsx:311, 321, 328).
CacheKeyShared(owner) == "owner"

CacheKey(owner) == ToLowerCase(owner)

\* a.toLowerCase() === b.toLowerCase()
SameAddressExact(a, b) == a = b

SameAddress(a, b) == ToLowerCase(a) = ToLowerCase(b)

\* The truthiness test `event.args?.tokenId` on a bigint: 0n is falsy.
Truthy(n) == n # 0

(***************************************************************************)
(* State.                                                                  *)
(***************************************************************************)
VARIABLES
  hasProvider,            \* window.ethereum is present (getProvider() non-null)
  address,                \* page.tsx:25
  myNFTs,                 \* page.tsx:31
  allNFTs,                \* page.tsx:32
  approvedNFTs,           \* page.tsx:33
  tokenQueryResults,      \* page.tsx:64
  lastQueriedTokenId,     \* page.tsx:65
  isLoading,              \* page.tsx:34
  isLoadingAllNFTs,       \* page.tsx:35
  isLoadingApprovedNFTs,  \* page.tsx:36
  isLoadingTokenQuery,    \* page.tsx:37
  activeQuery,            \* page.tsx:62
  tokenIdInput,           \* page.tsx:63
  contractInfo,           \* page.tsx:27
  balance,                \* page.tsx:40
  mintTokenURI,           \* page.tsx:38
  isMinting,              \* page.tsx:39
  imageHash,              \* page.tsx:43
  imageUrl,               \* page.tsx:44
  nftName,                \* page.tsx:45
  nftDescription,         \* page.tsx:46
  mintMode,               \* page.tsx:47
  isUploadingMetadata,    \* page.tsx:48
  delegateTargets,        \* page.tsx:49
  delegateTransferTokenId,\* page.tsx:52
  card,                   \* NFTCard.tsx:36-41, the card of the first owned token
  alerts,                 \* the texts alert() has shown
  passCount,              \* passes the user has started (bounded by MaxPasses)
  clickCount,             \* write handlers the user has started (bounded by MaxClicks)
  pass,                   \* the in-flight read passes, by slot
  writer,                 \* the write handlers and handleRefresh, by name
  ipfs,                   \* the files pinned on IPFS, by hash (CID)
  chain,                  \* the storage of the MyNFT contract
  imageUpload             \* the state of the page's ImageUpload component

\* The names of the pass slots: one pass at a time runs in a slot.
Slots == {"p", "q"}

resultVars == <<myNFTs, allNFTs, approvedNFTs, tokenQueryResults, lastQueriedTokenId>>

loadingVars == <<isLoading, isLoadingAllNFTs, isLoadingApprovedNFTs, isLoadingTokenQuery>>

queryVars == <<activeQuery, tokenIdInput>>

readVars == <<hasProvider, address, resultVars, loadingVars, queryVars, alerts, passCount,
              pass>>

dataVars == <<contractInfo, balance>>

\* What the user has entered in the forms of the page.
inputVars == <<mintTokenURI, imageHash, imageUrl, nftName, nftDescription, mintMode,
               delegateTargets>>

flagVars == <<isMinting, isUploadingMetadata, delegateTransferTokenId>>

writeVars == <<dataVars, inputVars, flagVars, clickCount>>

\* NFTCard.tsx:36-41: the state of a card when it is mounted.
\* The dependency of an effect that has not run yet.
NotRun == "<not run>"

\* ImageUpload (part_000:64-68): the File chosen in the file input, the
\* flag and the hash of its upload; call is the handleUpload in flight, which
\* keeps running when the component is unmounted (live = FALSE).
NoUpload == [file |-> NullString, live |-> FALSE]

InitialUpload ==
  [selectedFile |-> NullString, isUploading |-> FALSE, uploadedHash |-> NullString,
   call |-> NoUpload]

\* The uploader of a page whose imageHash came from its upload of art.png.
UploaderOf(hash) ==
  IF hash = NullString THEN InitialUpload
  ELSE [InitialUpload EXCEPT !.selectedFile = "art.png", !.uploadedHash = hash]

\* NFTCard.tsx:36-44: the state of a card when it is mounted.  loads are the
\* loadMetadata calls its effect has made, effect the tokenURI the effect
\* last ran for.
InitialCard ==
  [isApproving |-> FALSE, isTransferring |-> FALSE, transferTo |-> <<>>,
   approveTo |-> <<>>, showTransfer |-> FALSE, showApprove |-> FALSE,
   imageUrl |-> NullText, metadata |-> Null, isLoadingMetadata |-> FALSE,
   loads |-> <<>>, effect |-> NotRun]

\* page.tsx:633-671: the key of the card of the first record of the 'my' list
\* when that list is rendered, NoCard otherwise.
NoCard == <<"<no card>">>

CardKey(query, addr, loading, nfts) ==
  IF query = "my" /\ addr # "" /\ ~loading /\ Len(nfts) > 0
    THEN nfts[1].tokenId ELSE NoCard

CardHandlers == {"handleApprove", "handleTransfer"}

\* A card handler in flight whose card was unmounted updates no card any more.
Unmount(w) ==
  [h \in DOMAIN w |-> IF h \in CardHandlers THEN [w[h] EXCEPT !.live = FALSE] ELSE w[h]]

\* React keeps the state of a card while its key stays rendered and mounts a
\* fresh card otherwise; nextCard and nextWriter are what the step assigns.
RenderPage(nextCard, nextWriter) ==
  LET before == CardKey(activeQuery, address, isLoading, myNFTs)
      after == CardKey(activeQuery', address', isLoading', myNFTs')
  IN  IF after = before
        THEN card' = nextCard /\ writer' = nextWriter
        ELSE card' = InitialCard /\ writer' = Unmount(nextWriter)

\* A step of the page: it re-renders, and neither pins a file nor is a
\* transaction of the contract.
Render(nextCard, nextWriter) ==
  /\ RenderPage(nextCard, nextWriter)
  /\ UNCHANGED <<ipfs, chain, imageUpload>>

Handlers ==
  {"handleMintWithImage", "handleMintWithURI", "handleDelegateTransfer",
   "handleApprove", "handleTransfer", "handleRefresh"}

\* A handler that is not running.  While it runs: pc is the await it is
\* suspended at, slot the pass it awaits, address / activeQuery /
\* lastQueriedTokenId the state of the render it closed over, call the
\* contract call it submitted; outcome, stage and error record how it ended.
IdleWriter ==
  [pc |-> "idle", slot |-> "", address |-> "", activeQuery |-> "",
   lastQueriedTokenId |-> <<>>, metadata |-> Null, call |-> <<>>, live |-> FALSE,
   outcome |-> "none", stage |-> "none", error |-> ""]

PassAwaits == {"loadData", "loadAllNFTs", "loadApprovedNFTs", "refreshActiveQuery"}

\* A handler whose awaited pass has returned resumes before any other task
\* runs (its continuation is a microtask of the step that ended the pass).
Pending ==
  \E h \in Handlers : writer[h].pc \in PassAwaits /\ pass[writer[h].slot].pc = "done"

Quiescent == ~Pending

\* The frame of a step of the read pipeline.
ReadFrame ==
  /\ UNCHANGED writeVars
  /\ Render(card, writer)

NewTask(pc) ==
  [pc |-> pc, ownerOf |-> Unread, tokenURI |-> Unread, getApproved |-> Unread,
   isApprovedForAll |-> Unread, ret |-> Null]

IdlePass ==
  [mode |-> "none", pc |-> "idle", userAddress |-> "", skipAlert |-> FALSE,
   events |-> <<>>, cand |-> <<>>, task |-> <<>>, ownerApprovalCache |-> EmptyMap,
   outcome |-> "none", alerted |-> FALSE]

NewPass(mode, pc, userAddress, skipAlert) ==
  [IdlePass EXCEPT !.mode = mode, !.pc = pc, !.userAddress = userAddress,
                   !.skipAlert = skipAlert]

Free(s) == pass[s].pc \in {"idle", "done"}

\* A call that returned before its first await.
Returns(mode) == [NewPass(mode, "done", "", FALSE) EXCEPT !.outcome = "returned"]

AllSettled(s) == \A i \in DOMAIN pass[s].task : pass[s].task[i].pc = "done"

\* A call that is not a continuation of a running handler takes the first
\* slot whose pass has returned.
Allocates(s) == Free(s) /\ (s = "q" => ~Free("p"))

\* The passes once pass s has stored its result: an earlier pass whose stored
\* result of the same set is thereby replaced is marked "superseded".
Finish(next, s) ==
  [r \in Slots |->
     IF r = s THEN [next[s] EXCEPT !.pc = "done", !.outcome = "stored"]
     ELSE IF pass[r].mode = pass[s].mode /\ pass[r].outcome = "stored"
       THEN [pass[r] EXCEPT !.outcome = "superseded"]
       ELSE pass[r]]


(***************************************************************************)
(* loadAllMyNFTs (page.tsx:156-211): the owned-by pass.                    *)
(***************************************************************************)
\* Lines 157-171: the guards, setIsLoading(true) and the queryFilter call;
\* addr is the `address` of the render the caller closed over, shown the
\* alerts raised so far, those of the calling handler's step included.
loadAllMyNFTs(s, addr, shown) ==
  /\ Free(s)
  /\ IF addr = ""
       THEN /\ alerts' = shown \cup {AlertConnectFirst}
            /\ pass' = [pass EXCEPT ![s] = Returns("my")]
            /\ UNCHANGED isLoading
       ELSE IF ~hasProvider
         THEN /\ isLoading' = FALSE
              /\ pass' = [pass EXCEPT ![s] = Returns("my")]
              /\ alerts' = shown
         ELSE /\ isLoading' = TRUE
              /\ pass' = [pass EXCEPT ![s] = NewPass("my", "queryFilter", addr, FALSE)]
              /\ alerts' = shown
  /\ UNCHANGED <<hasProvider, address, resultVars, tokenIdInput, isLoadingAllNFTs,
                 isLoadingApprovedNFTs, isLoadingTokenQuery>>

\* Lines 174-184: the Set of token ids of the events received by `subject`.
RECURSIVE MyTokenIdSet(_, _)
MyTokenIdSet(events, subject) ==
  IF Len(events) = 0 THEN <<>>
  ELSE LET rest == MyTokenIdSet(SubSeq(events, 1, Len(events) - 1), subject)
           event == events[Len(events)]
       IN  IF SameAddress(event.to, subject)
             THEN SetAdd(rest, BigIntToString(event.tokenId))
             ELSE rest

\* Lines 170-187: queryFilter(Transfer(null, address)) resolves with the events
\* whose `to` topic is the subject; the Set is built and one ownerOf read is
\* issued per candidate.
loadAllMyNFTs_events(s) ==
  /\ pass[s].mode = "my" /\ pass[s].pc = "queryFilter"
  /\ \E events \in EventLogs :
       /\ \A i \in DOMAIN events : ToLowerCase(events[i].to) = ToLowerCase(pass[s].userAddress)
       /\ LET cand == MyTokenIdSet(events, pass[s].userAddress)
          IN  pass' = [pass EXCEPT ![s].pc = "reads", ![s].events = events,
                                   ![s].cand = cand,
                                   ![s].task = [i \in DOMAIN cand |-> NewTask("ownerOf")]]
  /\ UNCHANGED <<hasProvider, address, resultVars, loadingVars, queryVars, alerts, passCount>>
  /\ ReadFrame

\* loadAllMyNFTs_queryFails with a catch block that empties the list.
loadAllMyNFTs_queryFailsClears(s) ==
  /\ pass[s].mode = "my" /\ pass[s].pc = "queryFilter"
  /\ \E message \in ErrorMessages :
       alerts' = alerts \cup {AlertText(message, AlertMyQueryFailed)}
  /\ isLoading' = FALSE
  /\ myNFTs' = <<>>
  /\ pass' = [pass EXCEPT ![s].pc = "done", ![s].outcome = "failed",
                           ![s].alerted = TRUE]
  /\ UNCHANGED <<hasProvider, address, allNFTs, approvedNFTs, tokenQueryResults,
                 lastQueriedTokenId, queryVars, passCount, isLoadingAllNFTs,
                 isLoadingApprovedNFTs, isLoadingTokenQuery>>
  /\ ReadFrame

\* Lines 171, 205-210: queryFilter rejects.
loadAllMyNFTs_queryFails(s) ==
  /\ pass[s].mode = "my" /\ pass[s].pc = "queryFilter"
  /\ \E message \in ErrorMessages :
       alerts' = alerts \cup {AlertText(message, AlertMyQueryFailed)}
  /\ isLoading' = FALSE
  /\ pass' = [pass EXCEPT ![s].pc = "done", ![s].outcome = "failed",
                           ![s].alerted = TRUE]
  /\ UNCHANGED <<hasProvider, address, resultVars, queryVars, passCount, isLoadingAllNFTs,
                 isLoadingApprovedNFTs, isLoadingTokenQuery>>
  /\ ReadFrame

\* Lines 189-197: ownerOf settles for candidate i.
loadAllMyNFTs_ownerOf(s, i) ==
  /\ pass[s].mode = "my" /\ pass[s].pc = "reads"
  /\ i \in DOMAIN pass[s].task /\ pass[s].task[i].pc = "ownerOf"
  /\ \E owner \in Accounts \cup {Reject} :
       pass' = [pass EXCEPT ![s].task[i] =
         IF owner # Reject /\ SameAddress(owner, pass[s].userAddress)
           THEN [@ EXCEPT !.pc = "tokenURI", !.ownerOf = owner]
           ELSE [@ EXCEPT !.pc = "done", !.ownerOf = owner, !.ret = Null]]
  /\ UNCHANGED <<hasProvider, address, resultVars, loadingVars, queryVars, alerts, passCount>>
  /\ ReadFrame

\* Lines 191-192: tokenURI settles for candidate i; .catch(() => '').
loadAllMyNFTs_tokenURI(s, i) ==
  /\ pass[s].mode = "my" /\ pass[s].pc = "reads"
  /\ i \in DOMAIN pass[s].task /\ pass[s].task[i].pc = "tokenURI"
  /\ \E uri \in TokenURIs \cup {Reject} :
       pass' = [pass EXCEPT ![s].task[i] =
         [@ EXCEPT !.pc = "done", !.tokenURI = uri,
                   !.ret = [tokenId |-> pass[s].cand[i], owner |-> pass[s].task[i].ownerOf,
                            tokenURI |-> IF uri = Reject THEN "" ELSE uri]]]
  /\ UNCHANGED <<hasProvider, address, resultVars, loadingVars, queryVars, alerts, passCount>>
  /\ ReadFrame

\* Lines 200-204, 208-210: Promise.all resolves, the result is stored.
loadAllMyNFTs_done(s) ==
  /\ pass[s].mode = "my" /\ pass[s].pc = "reads" /\ AllSettled(s)
  /\ myNFTs' = NonNull(pass[s].task)
  /\ isLoading' = FALSE
  /\ pass' = Finish(pass, s)
  /\ UNCHANGED <<hasProvider, address, allNFTs, approvedNFTs, tokenQueryResults,
                 lastQueriedTokenId, queryVars, passCount, isLoadingAllNFTs, isLoadingApprovedNFTs,
                 isLoadingTokenQuery, alerts>>
  /\ ReadFrame


(***************************************************************************)
(* loadAllNFTs (page.tsx:213-262): the all-tokens pass.                    *)
(***************************************************************************)
\* Lines 226-231 and 293-298: the Set of token ids of the events, an event
\* being skipped when `event.args?.tokenId` is falsy.
RECURSIVE TokenIdSet(_)
TokenIdSet(events) ==
  IF Len(events) = 0 THEN <<>>
  ELSE LET rest == TokenIdSet(SubSeq(events, 1, Len(events) - 1))
           event == events[Len(events)]
       IN  IF Truthy(event.tokenId)
             THEN SetAdd(rest, BigIntToString(event.tokenId))
             ELSE rest

\* Lines 214-224.
loadAllNFTs(s, shown) ==
  /\ Free(s)
  /\ IF ~hasProvider
       THEN /\ alerts' = shown \cup {AlertNoProvider}
            /\ isLoadingAllNFTs' = FALSE
            /\ pass' = [pass EXCEPT ![s] = Returns("all")]
       ELSE /\ isLoadingAllNFTs' = TRUE
            /\ pass' = [pass EXCEPT ![s] = NewPass("all", "queryFilter", "", FALSE)]
            /\ alerts' = shown
  /\ UNCHANGED <<hasProvider, address, resultVars, tokenIdInput, isLoading,
                 isLoadingApprovedNFTs, isLoadingTokenQuery>>

\* Lines 223-233: queryFilter(Transfer(null, null)) resolves.
loadAllNFTs_events(s) ==
  /\ pass[s].mode = "all" /\ pass[s].pc = "queryFilter"
  /\ \E events \in EventLogs :
       LET cand == TokenIdSet(events)
       IN  pass' = [pass EXCEPT ![s].pc = "reads", ![s].events = events,
                                ![s].cand = cand,
                                ![s].task = [i \in DOMAIN cand |-> NewTask("Promise.all")]]
  /\ UNCHANGED <<hasProvider, address, resultVars, loadingVars, queryVars, alerts, passCount>>
  /\ ReadFrame

\* loadAllNFTs_queryFails without the finally block of lines 259-261.
loadAllNFTs_queryFailsNoFinally(s) ==
  /\ pass[s].mode = "all" /\ pass[s].pc = "queryFilter"
  /\ \E message \in ErrorMessages :
       alerts' = alerts \cup {AlertText(message, AlertAllQueryFailed)}
  /\ pass' = [pass EXCEPT ![s].pc = "done", ![s].outcome = "failed",
                           ![s].alerted = TRUE]
  /\ UNCHANGED <<hasProvider, address, resultVars, queryVars, passCount, loadingVars>>
  /\ ReadFrame

\* Lines 224, 256-261: queryFilter rejects.
loadAllNFTs_queryFails(s) ==
  /\ pass[s].mode = "all" /\ pass[s].pc = "queryFilter"
  /\ \E message \in ErrorMessages :
       alerts' = alerts \cup {AlertText(message, AlertAllQueryFailed)}
  /\ isLoadingAllNFTs' = FALSE
  /\ pass' = [pass EXCEPT ![s].pc = "done", ![s].outcome = "failed",
                           ![s].alerted = TRUE]
  /\ UNCHANGED <<hasProvider, address, resultVars, queryVars, passCount, isLoading,
                 isLoadingApprovedNFTs, isLoadingTokenQuery>>
  /\ ReadFrame

\* loadAllNFTs_reads without the try/catch of lines 234-242: a rejected
\* ownerOf rejects Promise.all(nftPromises) and reaches the outer catch.
loadAllNFTs_readsUncaught(s, i) ==
  /\ pass[s].mode = "all" /\ pass[s].pc = "reads"
  /\ i \in DOMAIN pass[s].task /\ pass[s].task[i].pc = "Promise.all"
  /\ \E owner \in Accounts \cup {Reject}, uri \in TokenURIs \cup {Reject} :
       /\ owner = Reject => uri = Reject
       /\ IF owner = Reject
            THEN /\ pass' = [pass EXCEPT ![s].pc = "done", ![s].outcome = "failed",
                                         ![s].alerted = TRUE,
                                         ![s].task[i] = [@ EXCEPT !.pc = "done",
                                                                  !.ownerOf = Reject]]
                 /\ alerts' = alerts \cup {AlertAllQueryFailed}
                 /\ isLoadingAllNFTs' = FALSE
            ELSE /\ pass' = [pass EXCEPT ![s].task[i] =
                      [@ EXCEPT !.pc = "done", !.ownerOf = owner, !.tokenURI = uri,
                                !.ret = [tokenId |-> pass[s].cand[i], owner |-> owner,
                                         tokenURI |-> IF uri = Reject THEN "" ELSE uri]]]
                 /\ UNCHANGED <<alerts, isLoadingAllNFTs>>
  /\ UNCHANGED <<hasProvider, address, resultVars, queryVars, passCount, isLoading,
                 isLoadingApprovedNFTs, isLoadingTokenQuery>>
  /\ ReadFrame

\* The receiver named by the latest event that carries tokenId.
EventReceiver(events, tokenId) ==
  LET carrying == {k \in DOMAIN events : BigIntToString(events[k].tokenId) = tokenId}
  IN  events[CHOOSE k \in carrying : \A j \in carrying : j <= k].to

\* loadAllNFTs_reads with the record's owner taken from the Transfer event
\* instead of the ownerOf read of line 236.
loadAllNFTs_readsEventOwner(s, i) ==
  /\ pass[s].mode = "all" /\ pass[s].pc = "reads"
  /\ i \in DOMAIN pass[s].task /\ pass[s].task[i].pc = "Promise.all"
  /\ \E owner \in Accounts \cup {Reject}, uri \in TokenURIs \cup {Reject} :
       /\ owner = Reject => uri = Reject
       /\ pass' = [pass EXCEPT ![s].task[i] =
            IF owner = Reject
              THEN [@ EXCEPT !.pc = "done", !.ownerOf = Reject, !.ret = Null]
              ELSE [@ EXCEPT !.pc = "done", !.ownerOf = owner, !.tokenURI = uri,
                             !.ret = [tokenId |-> pass[s].cand[i],
                                      owner |-> EventReceiver(pass[s].events, pass[s].cand[i]),
                                      tokenURI |-> IF uri = Reject THEN "" ELSE uri]]]
  /\ UNCHANGED <<hasProvider, address, resultVars, loadingVars, queryVars, alerts, passCount>>
  /\ ReadFrame

\* Lines 234-242: Promise.all([ownerOf, tokenURI.catch(() => '')]) settles for
\* candidate i: it rejects as soon as ownerOf rejects.
loadAllNFTs_reads(s, i) ==
  /\ pass[s].mode = "all" /\ pass[s].pc = "reads"
  /\ i \in DOMAIN pass[s].task /\ pass[s].task[i].pc = "Promise.all"
  /\ \E owner \in Accounts \cup {Reject}, uri \in TokenURIs \cup {Reject} :
       /\ owner = Reject => uri = Reject
       /\ pass' = [pass EXCEPT ![s].task[i] =
            IF owner = Reject
              THEN [@ EXCEPT !.pc = "done", !.ownerOf = Reject, !.ret = Null]
              ELSE [@ EXCEPT !.pc = "done", !.ownerOf = owner, !.tokenURI = uri,
                             !.ret = [tokenId |-> pass[s].cand[i], owner |-> owner,
                                      tokenURI |-> IF uri = Reject THEN "" ELSE uri]]]
  /\ UNCHANGED <<hasProvider, address, resultVars, loadingVars, queryVars, alerts, passCount>>
  /\ ReadFrame

\* loadAllNFTs_done storing what has been assembled so far, without awaiting
\* Promise.all(nftPromises).
loadAllNFTs_doneEarly(s) ==
  /\ pass[s].mode = "all" /\ pass[s].pc = "reads"
  /\ allNFTs' = ArraySort(NonNull(pass[s].task))
  /\ isLoadingAllNFTs' = FALSE
  /\ pass' = Finish(pass, s)
  /\ UNCHANGED <<hasProvider, address, myNFTs, approvedNFTs, tokenQueryResults,
                 lastQueriedTokenId, queryVars, passCount, isLoading, isLoadingApprovedNFTs,
                 isLoadingTokenQuery, alerts>>
  /\ ReadFrame

\* loadAllNFTs_done keeping the result of the pass that stored first when
\* another pass of the mode has stored already.
loadAllNFTs_doneFirstWins(s) ==
  /\ pass[s].mode = "all" /\ pass[s].pc = "reads" /\ AllSettled(s)
  /\ allNFTs' = IF \E r \in Slots \ {s} : pass[r].mode = "all" /\ pass[r].outcome = "stored"
                  THEN allNFTs ELSE ArraySort(NonNull(pass[s].task))
  /\ isLoadingAllNFTs' = FALSE
  /\ pass' = Finish(pass, s)
  /\ UNCHANGED <<hasProvider, address, myNFTs, approvedNFTs, tokenQueryResults,
                 lastQueriedTokenId, queryVars, passCount, isLoading, isLoadingApprovedNFTs,
                 isLoadingTokenQuery, alerts>>
  /\ ReadFrame

\* Lines 245-255, 259-261: Promise.all resolves; filter, sort, store.
loadAllNFTs_done(s) ==
  /\ pass[s].mode = "all" /\ pass[s].pc = "reads" /\ AllSettled(s)
  /\ allNFTs' = ArraySort(NonNull(pass[s].task))
  /\ isLoadingAllNFTs' = FALSE
  /\ pass' = Finish(pass, s)
  /\ UNCHANGED <<hasProvider, address, myNFTs, approvedNFTs, tokenQueryResults,
                 lastQueriedTokenId, queryVars, passCount, isLoading, isLoadingApprovedNFTs,
                 isLoadingTokenQuery, alerts>>
  /\ ReadFrame

(***************************************************************************)
(* loadApprovedNFTs (page.tsx:264-364): the delegated-to pass.             *)
(***************************************************************************)
Undefined == "<undefined>"

\* Lines 271-291.  targetAddress ?? address, addr being the `address` of the
\* render the caller closed over.
loadApprovedNFTs(s, addr, targetAddress, skipAlert, shown) ==
  LET userAddress == IF targetAddress = Undefined THEN addr ELSE targetAddress
  IN
  /\ Free(s)
  /\ IF userAddress = ""
       THEN /\ alerts' = IF skipAlert THEN shown ELSE shown \cup {AlertConnectFirst}
            /\ pass' = [pass EXCEPT ![s] = Returns("approved")]
            /\ UNCHANGED isLoadingApprovedNFTs
       ELSE IF ~hasProvider
         THEN /\ alerts' = IF skipAlert THEN shown ELSE shown \cup {AlertNoProvider}
              /\ isLoadingApprovedNFTs' = FALSE
              /\ pass' = [pass EXCEPT ![s] = Returns("approved")]
         ELSE /\ isLoadingApprovedNFTs' = TRUE
              /\ pass' = [pass EXCEPT ![s] =
                            NewPass("approved", "queryFilter", userAddress, skipAlert)]
              /\ alerts' = shown
  /\ UNCHANGED <<hasProvider, address, resultVars, tokenIdInput, isLoading,
                 isLoadingAllNFTs, isLoadingTokenQuery>>

\* Lines 290-303: queryFilter(Transfer(null, null)) resolves.
loadApprovedNFTs_events(s) ==
  /\ pass[s].mode = "approved" /\ pass[s].pc = "queryFilter"
  /\ \E events \in EventLogs :
       LET cand == TokenIdSet(events)
       IN  pass' = [pass EXCEPT ![s].pc = "reads", ![s].events = events,
                                ![s].cand = cand,
                                ![s].task = [i \in DOMAIN cand |-> NewTask("Promise.all")]]
  /\ UNCHANGED <<hasProvider, address, resultVars, loadingVars, queryVars, alerts, passCount>>
  /\ ReadFrame

\* Lines 291, 358-363: queryFilter rejects; the alert is not guarded by skipAlert.
loadApprovedNFTs_queryFails(s) ==
  /\ pass[s].mode = "approved" /\ pass[s].pc = "queryFilter"
  /\ \E message \in ErrorMessages :
       alerts' = alerts \cup {AlertText(message, AlertApprovedQueryFailed)}
  /\ isLoadingApprovedNFTs' = FALSE
  /\ pass' = [pass EXCEPT ![s].pc = "done", ![s].outcome = "failed",
                           ![s].alerted = TRUE]
  /\ UNCHANGED <<hasProvider, address, resultVars, queryVars, passCount, isLoading,
                 isLoadingAllNFTs, isLoadingTokenQuery>>
  /\ ReadFrame

\* Lines 323-327: try { isOperator = await isApprovedForAll(...) } catch { isOperator = false }
IsOperatorCatchTrue(answer) == answer # "false"

IsOperator(answer) == answer = "true"

DelegatedRecord(tokenId, owner, uri, approvalType) ==
  [tokenId |-> tokenId, owner |-> owner,
   tokenURI |-> IF uri = Reject THEN "" ELSE uri, approvalType |-> approvalType]

\* Line 312: approved && approved.toLowerCase() === userAddressLower, where a
\* rejected getApproved was replaced by ZeroAddress (line 308).
IsSingleApprovedExact(approved, userAddress) == approved = userAddress

IsSingleApproved(approved, userAddress) ==
  LET value == IF approved = Reject THEN ZeroAddress ELSE approved
  IN  value # "" /\ ToLowerCase(value) = ToLowerCase(userAddress)

\* Lines 305-329: Promise.all([ownerOf, tokenURI.catch, getApproved.catch])
\* settles for candidate i; then the single-approval test, the cache lookup
\* and, on a miss, the isApprovedForAll call.
loadApprovedNFTs_reads(s, i) ==
  /\ pass[s].mode = "approved" /\ pass[s].pc = "reads"
  /\ i \in DOMAIN pass[s].task /\ pass[s].task[i].pc = "Promise.all"
  /\ \E owner \in Accounts \cup {Reject}, uri \in TokenURIs \cup {Reject},
        approved \in Accounts \cup {ZeroAddress, Reject} :
       /\ owner = Reject => (uri = Reject /\ approved = Reject)
       /\ LET ownerLower == CacheKey(owner)
              cache == pass[s].ownerApprovalCache
              read == [pass[s].task[i] EXCEPT !.ownerOf = owner, !.tokenURI = uri,
                                              !.getApproved = approved]
          IN  pass' = [pass EXCEPT ![s].task[i] =
                IF owner = Reject
                  THEN [pass[s].task[i] EXCEPT !.pc = "done", !.ownerOf = Reject]
                ELSE IF IsSingleApproved(approved, pass[s].userAddress)
                  THEN [read EXCEPT !.pc = "done",
                          !.ret = DelegatedRecord(pass[s].cand[i], owner, uri, "single")]
                ELSE IF ownerLower \in DOMAIN cache
                  THEN [read EXCEPT !.pc = "done",
                          !.ret = IF cache[ownerLower]
                                    THEN DelegatedRecord(pass[s].cand[i], owner, uri, "all")
                                    ELSE Null]
                ELSE [read EXCEPT !.pc = "isApprovedForAll"]]
  /\ UNCHANGED <<hasProvider, address, resultVars, loadingVars, queryVars, alerts, passCount>>
  /\ ReadFrame

\* Lines 323-340: isApprovedForAll(owner, userAddress) settles for candidate i.
loadApprovedNFTs_isApprovedForAll(s, i) ==
  /\ pass[s].mode = "approved" /\ pass[s].pc = "reads"
  /\ i \in DOMAIN pass[s].task /\ pass[s].task[i].pc = "isApprovedForAll"
  /\ \E answer \in {"true", "false", Reject} :
       LET isOperator == IsOperator(answer)
           t == pass[s].task[i]
       IN  pass' = [pass EXCEPT
             ![s].ownerApprovalCache = MapSet(@, CacheKey(t.ownerOf), isOperator),
             ![s].task[i] = [t EXCEPT !.pc = "done", !.isApprovedForAll = answer,
                 !.ret = IF isOperator
                           THEN DelegatedRecord(pass[s].cand[i], t.ownerOf, t.tokenURI, "all")
                           ELSE Null]]
  /\ UNCHANGED <<hasProvider, address, resultVars, loadingVars, queryVars, alerts, passCount>>
  /\ ReadFrame

\* Lines 347-357, 361-363: Promise.all resolves; filter, sort, store.
loadApprovedNFTs_done(s) ==
  /\ pass[s].mode = "approved" /\ pass[s].pc = "reads" /\ AllSettled(s)
  /\ approvedNFTs' = ArraySort(NonNull(pass[s].task))
  /\ isLoadingApprovedNFTs' = FALSE
  /\ pass' = Finish(pass, s)
  /\ UNCHANGED <<hasProvider, address, myNFTs, allNFTs, tokenQueryResults,
                 lastQueriedTokenId, queryVars, passCount, isLoading, isLoadingAllNFTs,
                 isLoadingTokenQuery, alerts>>
  /\ ReadFrame


(***************************************************************************)
(* fetchTokenById (page.tsx:366-404): the single-token lookup.             *)
(***************************************************************************)
\* String.prototype.trim on a sequence of characters.
RECURSIVE TrimStart(_)
TrimStart(str) ==
  IF Len(str) > 0 /\ str[1] = " " THEN TrimStart(Tail(str)) ELSE str

RECURSIVE TrimEnd(_)
TrimEnd(str) ==
  IF Len(str) > 0 /\ str[Len(str)] = " " THEN TrimEnd(SubSeq(str, 1, Len(str) - 1)) ELSE str

Trim(str) == TrimEnd(TrimStart(str))

\* fetchTokenById reading the id as it was typed.
fetchTokenByIdUntrimmed(s, tokenId, suppressAlerts, shown) ==
  LET normalizedTokenId == Trim(tokenId)
  IN
  /\ Free(s)
  /\ IF normalizedTokenId = <<>>
       THEN /\ alerts' = IF suppressAlerts THEN shown ELSE shown \cup {AlertEnterTokenId}
            /\ pass' = [pass EXCEPT ![s] = Returns("token")]
            /\ UNCHANGED isLoadingTokenQuery
       ELSE IF ~hasProvider
         THEN /\ alerts' = IF suppressAlerts THEN shown ELSE shown \cup {AlertNoProvider}
              /\ isLoadingTokenQuery' = FALSE
              /\ pass' = [pass EXCEPT ![s] = Returns("token")]
         ELSE /\ isLoadingTokenQuery' = TRUE
              /\ pass' = [pass EXCEPT ![s] =
                   [NewPass("token", "reads", "", suppressAlerts) EXCEPT
                      !.cand = <<tokenId>>,
                      !.task = <<NewTask("Promise.all")>>]]
              /\ alerts' = shown
  /\ UNCHANGED <<hasProvider, address, resultVars, tokenIdInput, isLoading,
                 isLoadingAllNFTs, isLoadingApprovedNFTs>>

\* Lines 370-392.
fetchTokenById(s, tokenId, suppressAlerts, shown) ==
  LET normalizedTokenId == Trim(tokenId)
  IN
  /\ Free(s)
  /\ IF normalizedTokenId = <<>>
       THEN /\ alerts' = IF suppressAlerts THEN shown ELSE shown \cup {AlertEnterTokenId}
            /\ pass' = [pass EXCEPT ![s] = Returns("token")]
            /\ UNCHANGED isLoadingTokenQuery
       ELSE IF ~hasProvider
         THEN /\ alerts' = IF suppressAlerts THEN shown ELSE shown \cup {AlertNoProvider}
              /\ isLoadingTokenQuery' = FALSE
              /\ pass' = [pass EXCEPT ![s] = Returns("token")]
         ELSE /\ isLoadingTokenQuery' = TRUE
              /\ pass' = [pass EXCEPT ![s] =
                   [NewPass("token", "reads", "", suppressAlerts) EXCEPT
                      !.cand = <<normalizedTokenId>>,
                      !.task = <<NewTask("Promise.all")>>]]
              /\ alerts' = shown
  /\ UNCHANGED <<hasProvider, address, resultVars, tokenIdInput, isLoading,
                 isLoadingAllNFTs, isLoadingApprovedNFTs>>

\* Lines 389-403: Promise.all([ownerOf, tokenURI]) settles; neither read has a
\* catch of its own, so either rejection reaches the catch block.
fetchTokenById_reads(s) ==
  /\ pass[s].mode = "token" /\ pass[s].pc = "reads"
  /\ pass[s].task[1].pc = "Promise.all"
  /\ \E owner \in Accounts \cup {Reject}, uri \in TokenURIs \cup {Reject},
        message \in ErrorMessages :
       /\ owner = Reject => uri = Reject
       /\ (owner # Reject /\ uri # Reject) => message = ""
       /\ IF owner = Reject \/ uri = Reject
            THEN /\ alerts' = IF pass[s].skipAlert THEN alerts
                              ELSE alerts \cup {AlertText(message, AlertTokenQueryFailed)}
                 /\ pass' = [pass EXCEPT ![s].pc = "done", ![s].outcome = "failed",
                               ![s].alerted = ~pass[s].skipAlert,
                               ![s].task[1] = [@ EXCEPT !.pc = "done", !.ownerOf = owner,
                                                 !.tokenURI = IF owner = Reject THEN Unread
                                                              ELSE uri]]
                 /\ UNCHANGED <<tokenQueryResults, lastQueriedTokenId>>
            ELSE /\ tokenQueryResults' =
                      <<[tokenId |-> pass[s].cand[1], owner |-> owner, tokenURI |-> uri]>>
                 /\ lastQueriedTokenId' = pass[s].cand[1]
                 /\ pass' = Finish([pass EXCEPT
                               ![s].task[1] = [@ EXCEPT !.pc = "done", !.ownerOf = owner,
                                                 !.tokenURI = uri,
                                                 !.ret = [tokenId |-> pass[s].cand[1],
                                                          owner |-> owner, tokenURI |-> uri]]],
                             s)
                 /\ UNCHANGED alerts
  /\ isLoadingTokenQuery' = FALSE
  /\ UNCHANGED <<hasProvider, address, myNFTs, allNFTs, approvedNFTs, queryVars, passCount,
                 isLoading, isLoadingAllNFTs, isLoadingApprovedNFTs>>
  /\ ReadFrame

(***************************************************************************)
(* loadData (page.tsx:129-154): name, symbol and balanceOf.                *)
(***************************************************************************)
ContractName == "MyTestNFT"

ContractSymbol == "MTN"

Balances == {1, 2}

AlertLoadDataFailed == "data load failed"

\* Lines 130-136.
loadData(s, userAddress, shown) ==
  /\ Free(s)
  /\ IF userAddress = ""
       THEN /\ pass' = [pass EXCEPT ![s] = Returns("data")]
            /\ UNCHANGED isLoading
       ELSE IF ~hasProvider
         THEN /\ isLoading' = FALSE
              /\ pass' = [pass EXCEPT ![s] = Returns("data")]
         ELSE /\ isLoading' = TRUE
              /\ pass' = [pass EXCEPT ![s] = NewPass("data", "reads", userAddress, FALSE)]
  /\ alerts' = shown
  /\ UNCHANGED <<hasProvider, address, resultVars, tokenIdInput, isLoadingAllNFTs,
                 isLoadingApprovedNFTs, isLoadingTokenQuery>>

\* Lines 141-153: Promise.all([name, symbol, balanceOf]) settles.
loadData_reads(s) ==
  /\ pass[s].mode = "data" /\ pass[s].pc = "reads"
  /\ \E settled \in Settlements, balanceOf \in Balances :
       /\ settled # Resolve => balanceOf = 1
       /\ IF settled # Resolve
            THEN /\ alerts' = alerts \cup {AlertText(settled, AlertLoadDataFailed)}
                 /\ pass' = [pass EXCEPT ![s].pc = "done", ![s].outcome = "failed",
                                          ![s].alerted = TRUE]
                 /\ UNCHANGED dataVars
            ELSE /\ contractInfo' = [name |-> ContractName, symbol |-> ContractSymbol]
                 /\ balance' = balanceOf
                 /\ pass' = Finish(pass, s)
                 /\ UNCHANGED alerts
  /\ isLoading' = FALSE
  /\ UNCHANGED <<hasProvider, address, resultVars, queryVars, passCount, isLoadingAllNFTs,
                 isLoadingApprovedNFTs, isLoadingTokenQuery>>
  /\ UNCHANGED <<inputVars, flagVars, clickCount>>
  /\ Render(card, writer)

(***************************************************************************)
(* refreshActiveQuery (page.tsx:426-440) and handleRefresh (536-542), run  *)
(* by a card after a confirmed write.  w is the handleRefresh record with  *)
(* the state its render closed over.                                       *)
(***************************************************************************)
\* The variables a call that starts no pass leaves alone.
passFrame == <<hasProvider, address, resultVars, tokenIdInput, loadingVars, pass>>

\* Lines 427-439: the pass refreshActiveQuery calls, "none" when it calls none.
RefreshTarget(w) ==
  IF w.activeQuery = "my" THEN (IF w.address # "" THEN "my" ELSE "none")
  ELSE IF w.activeQuery = "all" THEN "all"
  ELSE IF w.activeQuery = "approved" THEN (IF w.address # "" THEN "approved" ELSE "none")
  ELSE IF w.activeQuery = "token" /\ w.lastQueriedTokenId # <<>> THEN "token"
  ELSE "none"

refreshActiveQuery(s, w, shown) ==
  CASE RefreshTarget(w) = "my" -> loadAllMyNFTs(s, w.address, shown)
    [] RefreshTarget(w) = "all" -> loadAllNFTs(s, shown)
    [] RefreshTarget(w) = "approved" ->
         loadApprovedNFTs(s, w.address, Undefined, TRUE, shown)
    [] RefreshTarget(w) = "token" -> fetchTokenById(s, w.lastQueriedTokenId, TRUE, shown)
    [] OTHER -> alerts' = shown /\ UNCHANGED passFrame

\* The handleRefresh record once refreshActiveQuery has been called.
AwaitRefreshActiveQuery(s, w) ==
  IF RefreshTarget(w) = "none"
    THEN [w EXCEPT !.pc = "idle", !.outcome = "returned"]
    ELSE [w EXCEPT !.pc = "refreshActiveQuery", !.slot = s]

\* Lines 537-541, up to the first call that is awaited.
handleRefresh(s, w, shown) ==
  IF w.address # "" THEN loadData(s, w.address, shown)
  ELSE refreshActiveQuery(s, w, shown)

AwaitHandleRefresh(s, w) ==
  IF w.address # "" THEN [w EXCEPT !.pc = "loadData", !.slot = s]
  ELSE AwaitRefreshActiveQuery(s, w)

\* The handleRefresh of the current render, as a card received it.
RefreshClosure ==
  [IdleWriter EXCEPT !.address = address, !.activeQuery = activeQuery,
                     !.lastQueriedTokenId = lastQueriedTokenId]

\* Line 1058: onClick of the refresh button, which is always rendered and
\* never disabled; handleRefresh runs up to its first awaited call.
handleRefresh_click(s) ==
  /\ Allocates(s) /\ Quiescent
  /\ writer["handleRefresh"].pc = "idle"
  /\ clickCount < MaxClicks
  /\ clickCount' = clickCount + 1
  /\ handleRefresh(s, RefreshClosure, alerts)
  /\ UNCHANGED <<activeQuery, passCount, dataVars, inputVars, flagVars>>
  /\ Render(card, [writer EXCEPT !["handleRefresh"] =
                     AwaitHandleRefresh(s, RefreshClosure)])

\* Lines 538-539: loadData has returned, loadApprovedNFTs is called.
handleRefresh_loadApprovedNFTs ==
  LET w == writer["handleRefresh"]
  IN  /\ w.pc = "loadData" /\ pass[w.slot].pc = "done"
      /\ loadApprovedNFTs(w.slot, w.address, Undefined, TRUE, alerts)
      /\ UNCHANGED <<activeQuery, passCount, writeVars>>
      /\ Render(card, [writer EXCEPT !["handleRefresh"].pc = "loadApprovedNFTs"])

\* Lines 539-541: loadApprovedNFTs has returned, refreshActiveQuery is called.
handleRefresh_refreshActiveQuery ==
  LET w == writer["handleRefresh"]
  IN  /\ w.pc = "loadApprovedNFTs" /\ pass[w.slot].pc = "done"
      /\ refreshActiveQuery(w.slot, w, alerts)
      /\ UNCHANGED <<activeQuery, passCount, writeVars>>
      /\ Render(card, [writer EXCEPT !["handleRefresh"] = AwaitRefreshActiveQuery(w.slot, w)])

\* Line 541: refreshActiveQuery has returned, and with it handleRefresh.
handleRefresh_done ==
  LET w == writer["handleRefresh"]
  IN  /\ w.pc = "refreshActiveQuery" /\ pass[w.slot].pc = "done"
      /\ UNCHANGED <<readVars, writeVars>>
      /\ Render(card, [writer EXCEPT !["handleRefresh"] =
                         [w EXCEPT !.pc = "idle", !.outcome = "returned"]])

(***************************************************************************)
(* The write handlers.  A handler is suspended at "send" while getSigner   *)
(* and the contract call are awaited, at "wait" while tx.wait() is; what   *)
(* the wallet and the chain answer is chosen when the await settles.       *)
(***************************************************************************)
MetadataHashes == {"QmMeta"}

\* undefined, where a text is expected.
UndefinedText == <<"<undefined>">>

\* JSON.stringify of an NFTMetadata object (ipfs.ts:112-116, pinataContent):
\* its members in insertion order, each a key and a string value.
JSONStringify(metadata) ==
  <<<<"name", metadata.name>>, <<"description", metadata.description>>,
    <<"image", metadata.image>>>>

\* The bytes of an image file (ImageUpload pins the file itself).
ImageFile == <<<<"<image bytes>", <<>>>>>>

\* response.json() succeeds on the bytes of a JSON document.
IsJSON(bytes) == \A i \in DOMAIN bytes : bytes[i][1] \in {"name", "description", "image"}

\* The value of member `key` of a parsed document, the last one winning.
Member(bytes, key) ==
  LET at == {i \in DOMAIN bytes : bytes[i][1] = key}
  IN  IF at = {} THEN UndefinedText
      ELSE bytes[CHOOSE i \in at : \A j \in at : j <= i][2]

\* A parser that hands out the description as the name.
JSONParseSwapped(bytes) ==
  [name |-> Member(bytes, "description"), description |-> Member(bytes, "name"),
   image |-> Member(bytes, "image")]

\* JSON.parse of a document, read as NFTMetadata.
JSONParse(bytes) ==
  [name |-> Member(bytes, "name"), description |-> Member(bytes, "description"),
   image |-> Member(bytes, "image")]

\* IPFS with nothing pinned; with the image the upload form has pinned.
NoPins == [hash \in {} |-> <<>>]

ImagePins(hash) == IF hash = NullString THEN NoPins ELSE [h \in {hash} |-> ImageFile]

AlertUploadImageFirst == "upload the image to IPFS first"

AlertEnterName == "enter the NFT name"

AlertEnterTokenURI == "enter the token URI"

AlertMintDone == "minting is complete"

AlertMintFailed == "minting failed"

AlertEnterRecipient == "enter the address to transfer to"

AlertInvalidEthereumAddress == "enter a valid Ethereum address"

AlertDelegateDone == "delegated transfer is complete"

AlertDelegateFailed == "delegated transfer failed"

AlertInvalidAddress == "enter a valid address"

AlertApproveDone == "approval is complete"

AlertApproveFailed == "approval failed"

AlertTransferDone == "transfer is complete"

AlertTransferFailed == "transfer failed"

\* ipfs.ts:147-149
getIPFSUrl(hash) == <<"ipfs://", hash>>

\* ipfs.ts:157-162
getIPFSGatewayUrl(hash) == <<"https://gateway.pinata.cloud/ipfs/", hash>>

\* An isAddress that accepts any one-word text.
isAddressLoose(str) == Len(str) = 1 /\ str[1] # " "

\* ethers.isAddress on the texts of the model: one address, in either spelling.
isAddress(str) ==
  Len(str) = 1 /\ str[1] \in Accounts \cup {ToLowerCase(a) : a \in Accounts}

\* The page state a write handler neither reads back nor writes.
pageFrame == <<hasProvider, address, resultVars, loadingVars, queryVars, passCount>>

\* A handler that returned from a validation with an alert.
Refuse(h, text) ==
  /\ alerts' = alerts \cup {text}
  /\ UNCHANGED <<pageFrame, pass, dataVars, inputVars, flagVars>>
  /\ Render(card, [writer EXCEPT ![h] = [IdleWriter EXCEPT !.outcome = "refused"]])

\* The record of a handler that ended in its catch block.
Failed(w, message) ==
  [w EXCEPT !.pc = "idle", !.outcome = "failed", !.stage = w.pc, !.error = message]

\* The record of a handler whose write was confirmed and that has returned.
Confirmed(w) == [w EXCEPT !.pc = "idle", !.outcome = "confirmed"]

(***************************************************************************)
(* handleMintWithImage (page.tsx:447-503).                                 *)
(***************************************************************************)
\* Lines 1015-1021 and 989: the button is rendered and enabled.
CanMintWithImage ==
  /\ address # "" /\ mintMode = "image" /\ imageHash # NullString
  /\ ~(isMinting \/ isUploadingMetadata \/ Trim(nftName) = <<>>)

\* Lines 447-474: the function, called in any state of the page: the
\* validations, then uploadMetadataToIPFS is called.
handleMintWithImage_call ==
  LET h == "handleMintWithImage"
      metadata == [name |-> nftName,
                   description |-> IF nftDescription = <<>> THEN nftName \o <<" NFT">>
                                   ELSE nftDescription,
                   image |-> getIPFSUrl(imageHash)]
  IN  /\ writer[h].pc = "idle"
      /\ clickCount < MaxClicks
      /\ clickCount' = clickCount + 1
      /\ IF address = "" THEN Refuse(h, AlertConnectFirst)
         ELSE IF imageHash = NullString THEN Refuse(h, AlertUploadImageFirst)
         ELSE IF Trim(nftName) = <<>> THEN Refuse(h, AlertEnterName)
         ELSE /\ isUploadingMetadata' = TRUE
              /\ UNCHANGED <<pageFrame, pass, alerts, dataVars, inputVars, isMinting,
                             delegateTransferTokenId>>
              /\ Render(card, [writer EXCEPT ![h] =
                   [IdleWriter EXCEPT !.pc = "uploadMetadataToIPFS", !.address = address,
                                      !.metadata = metadata]])

\* Line 1002: onClick of the mint button of the image form.
handleMintWithImage == Quiescent /\ CanMintWithImage /\ handleMintWithImage_call

\* handleMintWithImage_catch with a catch block that also resets the form.
handleMintWithImage_catchReset(message) ==
  LET h == "handleMintWithImage"
  IN  /\ alerts' = alerts \cup {AlertText(message, AlertMintFailed)}
      /\ isUploadingMetadata' = FALSE
      /\ isMinting' = FALSE
      /\ imageHash' = NullString /\ imageUrl' = NullText /\ nftName' = <<>> /\ nftDescription' = <<>>
      /\ UNCHANGED <<pageFrame, pass, dataVars, mintTokenURI, mintMode, delegateTargets,
                     delegateTransferTokenId, clickCount>>
      /\ Render(card, [writer EXCEPT ![h] = Failed(writer[h], message)])

\* Lines 496-502: catch and finally.
handleMintWithImage_catch(message) ==
  LET h == "handleMintWithImage"
  IN  /\ alerts' = alerts \cup {AlertText(message, AlertMintFailed)}
      /\ isUploadingMetadata' = FALSE
      /\ isMinting' = FALSE
      /\ UNCHANGED <<pageFrame, pass, dataVars, inputVars, delegateTransferTokenId,
                     clickCount>>
      /\ Render(card, [writer EXCEPT ![h] = Failed(writer[h], message)])

\* Lines 474-479: uploadMetadataToIPFS settles.
handleMintWithImage_uploadMetadataToIPFS ==
  LET h == "handleMintWithImage"
      w == writer[h]
  IN  /\ Quiescent /\ w.pc = "uploadMetadataToIPFS"
      /\ \E metadataHash \in MetadataHashes \cup {Reject}, message \in ErrorMessages :
           /\ metadataHash # Reject => message = ""
           /\ IF metadataHash = Reject THEN handleMintWithImage_catch(message)
              ELSE \* the hash is the CID of the pinned document
                   /\ metadataHash \in DOMAIN ipfs =>
                        ipfs[metadataHash] = JSONStringify(w.metadata)
                   /\ ipfs' = MapSet(ipfs, metadataHash, JSONStringify(w.metadata))
                   /\ isUploadingMetadata' = FALSE
                   /\ isMinting' = TRUE
                   /\ UNCHANGED <<pageFrame, pass, alerts, dataVars, inputVars,
                                  delegateTransferTokenId, clickCount, chain, imageUpload>>
                   /\ RenderPage(card, [writer EXCEPT ![h] =
                        [w EXCEPT !.pc = "send",
                                  !.call = <<"safeMint", w.address,
                                             getIPFSUrl(metadataHash)>>]])

\* Lines 481-486: getSigner and safeMint settle.
handleMintWithImage_send ==
  LET h == "handleMintWithImage"
      w == writer[h]
  IN  /\ Quiescent /\ w.pc = "send"
      /\ \E settled \in Settlements :
           IF settled # Resolve THEN handleMintWithImage_catch(settled)
           ELSE /\ UNCHANGED <<pageFrame, pass, alerts, writeVars>>
                /\ Render(card, [writer EXCEPT ![h].pc = "wait"])

\* Lines 487-494: tx.wait() settles; on success the form is reset and
\* loadData is called.
handleMintWithImage_wait(s) ==
  LET h == "handleMintWithImage"
      w == writer[h]
  IN  /\ Quiescent /\ w.pc = "wait" /\ Allocates(s)
      /\ \E settled \in Settlements :
           IF settled # Resolve THEN handleMintWithImage_catch(settled)
           ELSE /\ imageHash' = NullString /\ imageUrl' = NullText
                /\ nftName' = <<>> /\ nftDescription' = <<>>
                /\ loadData(s, w.address, alerts \cup {AlertMintDone})
                /\ UNCHANGED <<activeQuery, passCount, dataVars, mintTokenURI, mintMode,
                               delegateTargets, flagVars, clickCount>>
                /\ Render(card, [writer EXCEPT ![h] =
                     [w EXCEPT !.pc = "loadData", !.slot = s]])

\* Lines 494-495: loadData has returned, loadAllNFTs is called.
handleMintWithImage_loadAllNFTs ==
  LET h == "handleMintWithImage"
      w == writer[h]
  IN  /\ w.pc = "loadData" /\ pass[w.slot].pc = "done"
      /\ loadAllNFTs(w.slot, alerts)
      /\ UNCHANGED <<activeQuery, passCount, writeVars>>
      /\ Render(card, [writer EXCEPT ![h].pc = "loadAllNFTs"])

\* Lines 495, 499-502: loadAllNFTs has returned; finally.
handleMintWithImage_finally ==
  LET h == "handleMintWithImage"
      w == writer[h]
  IN  /\ w.pc = "loadAllNFTs" /\ pass[w.slot].pc = "done"
      /\ isUploadingMetadata' = FALSE
      /\ isMinting' = FALSE
      /\ UNCHANGED <<pageFrame, pass, alerts, dataVars, inputVars,
                     delegateTransferTokenId, clickCount>>
      /\ Render(card, [writer EXCEPT ![h] = Confirmed(w)])

(***************************************************************************)
(* The metadata of a card (NFTCard.tsx:48-99).                             *)
(***************************************************************************)
\* The characters of a token URI of the model, in the pieces the card's
\* string operations tell apart.
Text(str) ==
  CASE str = "" -> <<>>
    [] str = "ipfs://QmMeta" -> <<"ipfs://", "QmMeta">>
    [] str = "ipfs://QmImage" -> <<"ipfs://", "QmImage">>
    [] str = "https://ipfs.io/ipfs/QmMeta" -> <<"https://ipfs.io/ipfs/", "QmMeta">>
    [] str = "https://ipfs.io/ipfs/QmImage" -> <<"https://ipfs.io/ipfs/", "QmImage">>
    [] str = "https://gateway.pinata.cloud/ipfs/QmMeta" ->
         <<"https://gateway.pinata.cloud/ipfs/", "QmMeta">>
    [] OTHER -> <<str>>

\* The string of a text of at most one piece.
Str(text) == IF text = <<>> THEN "" ELSE text[1]

\* String.prototype.startsWith
startsWith(text, prefix) == text # <<>> /\ text[1] = prefix

\* String.prototype.replace with a string pattern: the first occurrence.
replace(text, pattern) ==
  LET at == {i \in DOMAIN text : text[i] = pattern}
  IN  IF at = {} THEN text
      ELSE LET i == CHOOSE x \in at : \A y \in at : x <= y
           IN  SubSeq(text, 1, i - 1) \o SubSeq(text, i + 1, Len(text))

\* NFTCard.tsx:49-59
convertIPFSUrl(url) ==
  IF startsWith(url, "ipfs://")
    THEN getIPFSGatewayUrl(Str(replace(url, "ipfs://")))
  ELSE IF startsWith(url, "https://ipfs.io/ipfs/")
    THEN getIPFSGatewayUrl(Str(replace(url, "https://ipfs.io/ipfs/")))
  ELSE url

\* page.tsx:658-666: the card is rendered; its tokenURI prop.
CardMounted == CardKey(activeQuery, address, isLoading, myNFTs) # NoCard

CardTokenURI == myNFTs[1].tokenURI

\* Lines 68-74: the URL loadMetadata fetches.
MetadataUrl(tokenURI) ==
  IF startsWith(Text(tokenURI), "ipfs://")
    THEN getIPFSGatewayUrl(Str(replace(Text(tokenURI), "ipfs://")))
    ELSE Text(tokenURI)

\* The public gateways that serve a pinned file under its hash.
Gateways == {getIPFSGatewayUrl("")[1], "https://ipfs.io/ipfs/"}

\* What a gateway can answer a GET of url with when the request gets
\* through: the pinned file with status 200, or a status that is not OK.
Served(url) ==
  IF Len(url) = 2 /\ url[1] \in Gateways /\ url[2] \in DOMAIN ipfs
    THEN {ipfs[url[2]]} ELSE {}

\* A step of the card alone.
CardFrame == UNCHANGED <<readVars, writeVars, writer, ipfs, chain, imageUpload>>

\* The effect has yet to run for the tokenURI of the last render.
EffectPending == CardMounted /\ card.effect # CardTokenURI

\* Lines 62-67, 98-99: the effect runs after a render whose tokenURI differs
\* from the one it last ran for (React runs it some time after the commit,
\* with the props of the latest render); loadMetadata runs up to its fetch.
useEffect_tokenURI ==
  /\ EffectPending
  /\ card' = IF CardTokenURI = "" THEN [card EXCEPT !.effect = CardTokenURI]
             ELSE [card EXCEPT !.effect = CardTokenURI,
                               !.isLoadingMetadata = TRUE,
                               !.loads = Append(@, [pc |-> "fetch", tokenURI |-> CardTokenURI,
                                                    url |-> MetadataUrl(CardTokenURI),
                                                    body |-> <<>>, error |-> "none"])]
  /\ CardFrame

\* A catch block that leaves what the card shows as it is.
loadMetadata_catchKeep(k, error) ==
  [card EXCEPT !.isLoadingMetadata = FALSE,
               !.loads[k].pc = "fulfilled", !.loads[k].error = error]

\* Lines 89-95: catch and finally; the promise of loadMetadata is fulfilled.
loadMetadata_catch(k, error) ==
  [card EXCEPT !.imageUrl = NullText, !.metadata = Null, !.isLoadingMetadata = FALSE,
               !.loads[k].pc = "fulfilled", !.loads[k].error = error]

\* Lines 76-79: fetch settles: it rejects, or resolves with a response that
\* is OK or not.
loadMetadata_fetch(k) ==
  /\ CardMounted
  /\ k \in DOMAIN card.loads /\ card.loads[k].pc = "fetch"
  /\ \/ \E error \in {"network", "status"} : card' = loadMetadata_catch(k, error)
     \/ \E body \in Served(card.loads[k].url) :
          card' = [card EXCEPT !.loads[k].pc = "json", !.loads[k].body = body]
  /\ CardFrame

\* The truthiness test `data.image` on a string: a non-empty one.
TruthyText(text) == text \notin {<<>>, UndefinedText, NullText}

\* Lines 81-88, 93-95: response.json() settles: it rejects (the body cannot
\* be read, or is not JSON) or resolves with the parsed document.
loadMetadata_json(k) ==
  /\ CardMounted
  /\ k \in DOMAIN card.loads /\ card.loads[k].pc = "json"
  /\ \/ card' = loadMetadata_catch(k, "network")
     \/ /\ ~IsJSON(card.loads[k].body)
        /\ card' = loadMetadata_catch(k, "parse")
     \/ /\ IsJSON(card.loads[k].body)
        /\ LET data == JSONParse(card.loads[k].body)
           IN  card' = [card EXCEPT !.metadata = data,
                                    !.imageUrl = IF TruthyText(data.image)
                                                   THEN convertIPFSUrl(data.image) ELSE @,
                                    !.isLoadingMetadata = FALSE,
                                    !.loads[k].pc = "fulfilled"]
  /\ CardFrame

(***************************************************************************)
(* handleMintWithURI (page.tsx:505-534).                                   *)
(***************************************************************************)
\* Lines 1036-1038 and 989: the button is rendered and enabled.
CanMintWithURI == address # "" /\ mintMode = "uri" /\ ~isMinting

\* Lines 506-519.
handleMintWithURI ==
  LET h == "handleMintWithURI"
  IN  /\ Quiescent /\ CanMintWithURI
      /\ writer[h].pc = "idle"
      /\ clickCount < MaxClicks
      /\ clickCount' = clickCount + 1
      /\ IF address = "" THEN Refuse(h, AlertConnectFirst)
         ELSE IF Trim(mintTokenURI) = <<>> THEN Refuse(h, AlertEnterTokenURI)
         ELSE /\ isMinting' = TRUE
              /\ UNCHANGED <<pageFrame, pass, alerts, dataVars, inputVars,
                             isUploadingMetadata, delegateTransferTokenId>>
              /\ Render(card, [writer EXCEPT ![h] =
                   [IdleWriter EXCEPT !.pc = "send", !.address = address,
                                      !.call = <<"safeMint", address, mintTokenURI>>]])

\* Lines 527-533: catch and finally.
handleMintWithURI_catch(message) ==
  LET h == "handleMintWithURI"
  IN  /\ alerts' = alerts \cup {AlertText(message, AlertMintFailed)}
      /\ isMinting' = FALSE
      /\ UNCHANGED <<pageFrame, pass, dataVars, inputVars, isUploadingMetadata,
                     delegateTransferTokenId, clickCount>>
      /\ Render(card, [writer EXCEPT ![h] = Failed(writer[h], message)])

\* Lines 517-520: getSigner and safeMint settle.
handleMintWithURI_send ==
  LET h == "handleMintWithURI"
      w == writer[h]
  IN  /\ Quiescent /\ w.pc = "send"
      /\ \E settled \in Settlements :
           IF settled # Resolve THEN handleMintWithURI_catch(settled)
           ELSE /\ UNCHANGED <<pageFrame, pass, alerts, writeVars>>
                /\ Render(card, [writer EXCEPT ![h].pc = "wait"])

\* Lines 521-525: tx.wait() settles; on success the input is reset and
\* loadData is called.
handleMintWithURI_wait(s) ==
  LET h == "handleMintWithURI"
      w == writer[h]
  IN  /\ Quiescent /\ w.pc = "wait" /\ Allocates(s)
      /\ \E settled \in Settlements :
           IF settled # Resolve THEN handleMintWithURI_catch(settled)
           ELSE /\ mintTokenURI' = <<>>
                /\ loadData(s, w.address, alerts \cup {AlertMintDone})
                /\ UNCHANGED <<activeQuery, passCount, dataVars, imageHash, imageUrl,
                               nftName, nftDescription, mintMode, delegateTargets,
                               flagVars, clickCount>>
                /\ Render(card, [writer EXCEPT ![h] =
                     [w EXCEPT !.pc = "loadData", !.slot = s]])

\* Lines 525-526: loadData has returned, loadAllNFTs is called.
handleMintWithURI_loadAllNFTs ==
  LET h == "handleMintWithURI"
      w == writer[h]
  IN  /\ w.pc = "loadData" /\ pass[w.slot].pc = "done"
      /\ loadAllNFTs(w.slot, alerts)
      /\ UNCHANGED <<activeQuery, passCount, writeVars>>
      /\ Render(card, [writer EXCEPT ![h].pc = "loadAllNFTs"])

\* Lines 526, 530-533: loadAllNFTs has returned; finally.
handleMintWithURI_finally ==
  LET h == "handleMintWithURI"
      w == writer[h]
  IN  /\ w.pc = "loadAllNFTs" /\ pass[w.slot].pc = "done"
      /\ isMinting' = FALSE
      /\ UNCHANGED <<pageFrame, pass, alerts, dataVars, inputVars, isUploadingMetadata,
                     delegateTransferTokenId, clickCount>>
      /\ Render(card, [writer EXCEPT ![h] = Confirmed(w)])

(***************************************************************************)
(* handleDelegateTransfer (page.tsx:551-594).                              *)
(***************************************************************************)
\* delegateTargets[tokenId] || ''
DelegateTarget(tokenId) ==
  IF tokenId \in DOMAIN delegateTargets THEN delegateTargets[tokenId] ELSE <<>>

\* Lines 708-786: the button of record k of the 'approved' list is rendered
\* and enabled.
CanDelegateTransfer(k) ==
  /\ activeQuery = "approved" /\ address # "" /\ ~isLoadingApprovedNFTs
  /\ k \in DOMAIN approvedNFTs
  /\ delegateTransferTokenId # approvedNFTs[k].tokenId

\* Lines 552-579.
handleDelegateTransfer(k) ==
  LET h == "handleDelegateTransfer"
      nft == approvedNFTs[k]
      to == Trim(DelegateTarget(nft.tokenId))
  IN  /\ Quiescent /\ CanDelegateTransfer(k)
      /\ writer[h].pc = "idle"
      /\ clickCount < MaxClicks
      /\ clickCount' = clickCount + 1
      /\ IF address = "" THEN Refuse(h, AlertConnectFirst)
         ELSE IF ~hasProvider THEN Refuse(h, AlertNoProvider)
         ELSE IF to = <<>> THEN Refuse(h, AlertEnterRecipient)
         ELSE IF ~isAddress(to) THEN Refuse(h, AlertInvalidEthereumAddress)
         ELSE /\ delegateTransferTokenId' = nft.tokenId
              /\ UNCHANGED <<pageFrame, pass, alerts, dataVars, inputVars, isMinting,
                             isUploadingMetadata>>
              /\ Render(card, [writer EXCEPT ![h] =
                   [IdleWriter EXCEPT !.pc = "send", !.address = address,
                        !.call = <<"safeTransferFrom", nft.owner, to, nft.tokenId>>]])

\* Lines 588-593: catch and finally.
handleDelegateTransfer_catch(message) ==
  LET h == "handleDelegateTransfer"
  IN  /\ alerts' = alerts \cup {AlertText(message, AlertDelegateFailed)}
      /\ delegateTransferTokenId' = NullText
      /\ UNCHANGED <<pageFrame, pass, dataVars, inputVars, isMinting,
                     isUploadingMetadata, clickCount>>
      /\ Render(card, [writer EXCEPT ![h] = Failed(writer[h], message)])

\* Lines 575-579: getSigner and safeTransferFrom settle.
handleDelegateTransfer_send ==
  LET h == "handleDelegateTransfer"
      w == writer[h]
  IN  /\ Quiescent /\ w.pc = "send"
      /\ \E settled \in Settlements :
           IF settled # Resolve THEN handleDelegateTransfer_catch(settled)
           ELSE /\ UNCHANGED <<pageFrame, pass, alerts, writeVars>>
                /\ Render(card, [writer EXCEPT ![h].pc = "wait"])

\* Lines 580-586: tx.wait() settles; on success the target input of the
\* token is reset and loadApprovedNFTs is called.
handleDelegateTransfer_wait(s) ==
  LET h == "handleDelegateTransfer"
      w == writer[h]
  IN  /\ Quiescent /\ w.pc = "wait" /\ Allocates(s)
      /\ \E settled \in Settlements :
           IF settled # Resolve THEN handleDelegateTransfer_catch(settled)
           ELSE /\ delegateTargets' = MapSet(delegateTargets, w.call[4], <<>>)
                /\ loadApprovedNFTs(s, w.address, Undefined, TRUE,
                                    alerts \cup {AlertDelegateDone})
                /\ UNCHANGED <<activeQuery, passCount, dataVars, mintTokenURI, imageHash,
                               imageUrl, nftName, nftDescription, mintMode, flagVars,
                               clickCount>>
                /\ Render(card, [writer EXCEPT ![h] =
                     [w EXCEPT !.pc = "loadApprovedNFTs", !.slot = s]])

\* Lines 586-587: loadApprovedNFTs has returned, loadAllNFTs is called.
handleDelegateTransfer_loadAllNFTs ==
  LET h == "handleDelegateTransfer"
      w == writer[h]
  IN  /\ w.pc = "loadApprovedNFTs" /\ pass[w.slot].pc = "done"
      /\ loadAllNFTs(w.slot, alerts)
      /\ UNCHANGED <<activeQuery, passCount, writeVars>>
      /\ Render(card, [writer EXCEPT ![h].pc = "loadAllNFTs"])

\* Lines 587, 591-593: loadAllNFTs has returned; finally.
handleDelegateTransfer_finally ==
  LET h == "handleDelegateTransfer"
      w == writer[h]
  IN  /\ w.pc = "loadAllNFTs" /\ pass[w.slot].pc = "done"
      /\ delegateTransferTokenId' = NullText
      /\ UNCHANGED <<pageFrame, pass, alerts, dataVars, inputVars, isMinting,
                     isUploadingMetadata, clickCount>>
      /\ Render(card, [writer EXCEPT ![h] = Confirmed(w)])

(***************************************************************************)
(* NFTCard (NFTCard.tsx): handleApprove (101-125), handleTransfer          *)
(* (127-151), for the card of the first record of the 'my' list.           *)
(***************************************************************************)
\* page.tsx:658-668 and NFTCard.tsx:46: the card is rendered and its owner
\* is the connected account.
isOwner ==
  /\ CardKey(activeQuery, address, isLoading, myNFTs) # NoCard
  /\ ToLowerCase(myNFTs[1].owner) = ToLowerCase(address)

\* A state update of a card handler: it reaches the card only while the card
\* the handler was started from is mounted.
SetCard(w, nextCard) == IF w.live THEN nextCard ELSE card

\* The closure of a card handler: the props and the handleRefresh of the
\* render it was started from.
CardClosure(pc, call) ==
  [RefreshClosure EXCEPT !.pc = pc, !.call = call, !.live = TRUE]

\* An onRefresh that is the handleRefresh of the latest render instead of
\* the one the card handler closed over.
OnRefreshLatest(w) == RefreshClosure

\* The handleRefresh a card handler received as onTransfer / onRefresh.
OnRefresh(w) ==
  [IdleWriter EXCEPT !.address = w.address, !.activeQuery = w.activeQuery,
                     !.lastQueriedTokenId = w.lastQueriedTokenId]

\* A card handler that returned from its validation with an alert.
RefuseCard(h) ==
  /\ alerts' = alerts \cup {AlertInvalidAddress}
  /\ UNCHANGED <<pageFrame, pass, dataVars, inputVars, flagVars>>
  /\ Render(card, [writer EXCEPT ![h] = [IdleWriter EXCEPT !.outcome = "refused"]])

\* NFTCard.tsx:102-108.
handleApprove ==
  LET h == "handleApprove"
  IN  /\ Quiescent /\ isOwner
      /\ card.showApprove /\ ~card.isApproving
      /\ writer[h].pc = "idle"
      /\ clickCount < MaxClicks
      /\ clickCount' = clickCount + 1
      /\ IF card.approveTo = <<>> \/ ~isAddress(card.approveTo) THEN RefuseCard(h)
         ELSE /\ UNCHANGED <<pageFrame, pass, alerts, dataVars, inputVars, flagVars>>
              /\ Render([card EXCEPT !.isApproving = TRUE],
                        [writer EXCEPT ![h] =
                           CardClosure("send", <<"approve", card.approveTo,
                                                 myNFTs[1].tokenId>>)])

\* NFTCard.tsx:119-124: catch and finally.
handleApprove_catch(message) ==
  LET h == "handleApprove"
      w == writer[h]
  IN  /\ alerts' = alerts \cup {AlertText(message, AlertApproveFailed)}
      /\ UNCHANGED <<pageFrame, pass, writeVars>>
      /\ Render(SetCard(w, [card EXCEPT !.isApproving = FALSE]),
                [writer EXCEPT ![h] = Failed(w, message)])

\* NFTCard.tsx:109-113: getSigner and approve settle.
handleApprove_send ==
  LET h == "handleApprove"
      w == writer[h]
  IN  /\ Quiescent /\ w.pc = "send"
      /\ \E settled \in Settlements :
           IF settled # Resolve THEN handleApprove_catch(settled)
           ELSE /\ UNCHANGED <<pageFrame, pass, alerts, writeVars>>
                /\ Render(card, [writer EXCEPT ![h].pc = "wait"])

\* NFTCard.tsx:114-118, 122-124: tx.wait() settles; on success the form is
\* reset and closed, onRefresh() is called without being awaited, finally.
handleApprove_wait(s) ==
  LET h == "handleApprove"
      w == writer[h]
  IN  /\ Quiescent /\ w.pc = "wait" /\ Allocates(s)
      /\ \E settled \in Settlements :
           IF settled # Resolve THEN handleApprove_catch(settled)
           ELSE /\ writer["handleRefresh"].pc = "idle"
                /\ handleRefresh(s, OnRefresh(w), alerts \cup {AlertApproveDone})
                /\ UNCHANGED <<activeQuery, passCount, writeVars>>
                /\ Render(SetCard(w, [card EXCEPT !.approveTo = <<>>,
                                                  !.showApprove = FALSE,
                                                  !.isApproving = FALSE]),
                          [writer EXCEPT ![h] = Confirmed(w),
                                         !["handleRefresh"] =
                                            AwaitHandleRefresh(s, OnRefresh(w))])

\* NFTCard.tsx:128-134.
handleTransfer ==
  LET h == "handleTransfer"
  IN  /\ Quiescent /\ isOwner
      /\ card.showTransfer /\ ~card.isTransferring
      /\ writer[h].pc = "idle"
      /\ clickCount < MaxClicks
      /\ clickCount' = clickCount + 1
      /\ IF card.transferTo = <<>> \/ ~isAddress(card.transferTo) THEN RefuseCard(h)
         ELSE /\ UNCHANGED <<pageFrame, pass, alerts, dataVars, inputVars, flagVars>>
              /\ Render([card EXCEPT !.isTransferring = TRUE],
                        [writer EXCEPT ![h] =
                           CardClosure("send", <<"safeTransferFrom", address,
                                                 card.transferTo, myNFTs[1].tokenId>>)])

\* NFTCard.tsx:145-150: catch and finally.
handleTransfer_catch(message) ==
  LET h == "handleTransfer"
      w == writer[h]
  IN  /\ alerts' = alerts \cup {AlertText(message, AlertTransferFailed)}
      /\ UNCHANGED <<pageFrame, pass, writeVars>>
      /\ Render(SetCard(w, [card EXCEPT !.isTransferring = FALSE]),
                [writer EXCEPT ![h] = Failed(w, message)])

\* NFTCard.tsx:135-139: getSigner and safeTransferFrom settle.
handleTransfer_send ==
  LET h == "handleTransfer"
      w == writer[h]
  IN  /\ Quiescent /\ w.pc = "send"
      /\ \E settled \in Settlements :
           IF settled # Resolve THEN handleTransfer_catch(settled)
           ELSE /\ UNCHANGED <<pageFrame, pass, alerts, writeVars>>
                /\ Render(card, [writer EXCEPT ![h].pc = "wait"])

\* NFTCard.tsx:140-144, 148-150: tx.wait() settles; on success the form is
\* reset and closed, onTransfer() is called without being awaited, finally.
handleTransfer_wait(s) ==
  LET h == "handleTransfer"
      w == writer[h]
  IN  /\ Quiescent /\ w.pc = "wait" /\ Allocates(s)
      /\ \E settled \in Settlements :
           IF settled # Resolve THEN handleTransfer_catch(settled)
           ELSE /\ writer["handleRefresh"].pc = "idle"
                /\ handleRefresh(s, OnRefresh(w), alerts \cup {AlertTransferDone})
                /\ UNCHANGED <<activeQuery, passCount, writeVars>>
                /\ Render(SetCard(w, [card EXCEPT !.transferTo = <<>>,
                                                  !.showTransfer = FALSE,
                                                  !.isTransferring = FALSE]),
                          [writer EXCEPT ![h] = Confirmed(w),
                                         !["handleRefresh"] =
                                            AwaitHandleRefresh(s, OnRefresh(w))])

(***************************************************************************)
(* The query menu (page.tsx:406-424, 1046-1100).                           *)
(***************************************************************************)
QueryModes == {"my", "all", "approved", "token"}

TokenIdInputs == {<<>>, <<" ">>, <<" ", "9">>}

\* Lines 1075-1079: the button of a mode is disabled while its flag is set.
isBusy(mode) ==
  \/ mode = "my" /\ isLoading
  \/ mode = "all" /\ isLoadingAllNFTs
  \/ mode = "approved" /\ isLoadingApprovedNFTs
  \/ mode = "token" /\ isLoadingTokenQuery

\* Lines 410-424.
handleSelectQuery(mode, s) ==
  /\ ~isBusy(mode)
  /\ activeQuery' = mode
  /\ IF (mode \in {"my", "approved"} /\ address = "") \/ mode = "token"
       THEN /\ s = "p"
            /\ UNCHANGED <<hasProvider, address, resultVars, loadingVars, tokenIdInput,
                           alerts, passCount, pass>>
       ELSE /\ Allocates(s)
            /\ passCount < MaxPasses
            /\ passCount' = passCount + 1
            /\ CASE mode = "my" -> loadAllMyNFTs(s, address, alerts)
                 [] mode = "all" -> loadAllNFTs(s, alerts)
                 [] mode = "approved" ->
                      loadApprovedNFTs(s, address, Undefined, FALSE, alerts)
  /\ ReadFrame

\* Lines 1102-1110: the token-id input, rendered in the 'token' tab, and its
\* onChange (setTokenIdInput).
setTokenIdInput(value) ==
  /\ activeQuery = "token"
  /\ tokenIdInput # value
  /\ tokenIdInput' = value
  /\ UNCHANGED <<hasProvider, address, resultVars, loadingVars, activeQuery, alerts,
                 passCount, pass>>
  /\ ReadFrame

\* Lines 406-408; lines 1102-1120: the button is rendered in the 'token' tab
\* and disabled while isLoadingTokenQuery.
handleQueryToken(s) ==
  /\ Allocates(s)
  /\ activeQuery = "token"
  /\ ~isLoadingTokenQuery
  /\ passCount < MaxPasses
  /\ passCount' = passCount + 1
  /\ fetchTokenById(s, tokenIdInput, FALSE, alerts)
  /\ UNCHANGED activeQuery
  /\ ReadFrame

(***************************************************************************)
(* MyNFT (the Solidity contract).                                          *)
(***************************************************************************)
\* safeMint transactions the model lets the chain include.
MaxMints == 3

\* The deployer, who becomes the contract's owner (Ownable(msg.sender)).
ContractOwner == "0xA"

\* A contract account whose onERC721Received does not return the selector.
RejectingReceiver == "0xC"

Senders == Accounts

Receivers == Accounts \cup {ZeroAddress, RejectingReceiver}

\* A string argument as the ABI carries it.
MintURIs == {"", "ipfs://QmMeta"}

\* Lines 11-16: the storage after the constructor has run; receipts is the
\* chain's record of the safeMint transactions it included, transfers the
\* Transfer events they emitted.
Deployed ==
  [owner |-> ContractOwner, tokenIdCounter |-> 0,
   owners |-> [id \in {} |-> ZeroAddress], tokenURIs |-> [id \in {} |-> ""],
   transfers |-> <<>>, receipts |-> <<>>]

\* A call that reverted: the storage it leaves is the one it found.
Reverted == [reverted |-> TRUE]

\* Counters.current
current(storage) == storage.tokenIdCounter

\* Counters.increment
increment(storage) == [storage EXCEPT !.tokenIdCounter = @ + 1]

\* ERC721._safeMint: _mint, then the onERC721Received check of a contract
\* receiver; a zero receiver, an id that exists, or a receiver that rejects
\* the token, reverts.
_safeMint(storage, to, tokenId) ==
  IF to = ZeroAddress \/ tokenId \in DOMAIN storage.owners \/ to = RejectingReceiver
    THEN Reverted
    ELSE [storage EXCEPT !.owners = MapSet(@, tokenId, to),
                         !.transfers = Append(@, [from |-> ZeroAddress, to |-> to,
                                                  tokenId |-> tokenId])]

\* ERC721URIStorage._setTokenURI
_setTokenURI(storage, tokenId, uri) ==
  [storage EXCEPT !.tokenURIs = MapSet(@, tokenId, uri)]

\* safeMint without the read of the counter before its increment: the id is
\* the counter's value after the increment.
safeMintBodyIncrementFirst(storage, to, uri) ==
  LET incremented == increment(storage)
      tokenId == current(incremented)
      minted == _safeMint(incremented, to, tokenId)
  IN  IF minted = Reverted THEN Reverted ELSE _setTokenURI(minted, tokenId, uri)

\* Lines 26-29: the body of safeMint.
safeMintBody(storage, to, uri) ==
  LET tokenId == current(storage)
      incremented == increment(storage)
      minted == _safeMint(incremented, to, tokenId)
  IN  IF minted = Reverted THEN Reverted ELSE _setTokenURI(minted, tokenId, uri)

\* The modifier without its check: any sender passes.
onlyOwnerAnySender(storage, sender) == TRUE

\* Ownable.onlyOwner: _checkOwner() compares owner() with msg.sender.
onlyOwner(storage, sender) == sender = storage.owner

\* Lines 22-30: a safeMint transaction is included in a block; onlyOwner
\* reverts for any sender but the owner, and a revert discards every write
\* of the call.
safeMint(sender, to, uri) ==
  LET result == IF ~onlyOwner(chain, sender) THEN Reverted
                ELSE safeMintBody(chain, to, uri)
  IN  /\ Len(chain.receipts) < MaxMints
      /\ chain' = IF result = Reverted
                    THEN [chain EXCEPT !.receipts = Append(@, "reverted")]
                    ELSE [result EXCEPT !.receipts = Append(@, "success")]
      /\ UNCHANGED <<readVars, writeVars, card, writer, ipfs, imageUpload>>

(***************************************************************************)
(* The read pipeline alone: a connected (or not yet connected) page whose  *)
(* user starts query passes.                                               *)
(***************************************************************************)
InitPage ==
  /\ hasProvider \in BOOLEAN
  /\ address \in IF hasProvider THEN {""} \cup WalletAccounts ELSE {""}
  /\ myNFTs = <<>> /\ allNFTs = <<>> /\ approvedNFTs = <<>>
  /\ tokenQueryResults = <<>> /\ lastQueriedTokenId = <<>>
  /\ isLoading = FALSE /\ isLoadingAllNFTs = FALSE
  /\ isLoadingApprovedNFTs = FALSE /\ isLoadingTokenQuery = FALSE
  /\ activeQuery = "my" /\ tokenIdInput = <<>>
  /\ alerts = {}
  /\ passCount = 0
  /\ pass = [s \in Slots |-> IdlePass]
  /\ contractInfo = Null /\ balance = 0
  /\ mintTokenURI = <<>> /\ isMinting = FALSE
  /\ imageHash = NullString /\ imageUrl = NullText /\ nftName = <<>> /\ nftDescription = <<>>
  /\ mintMode = "image" /\ isUploadingMetadata = FALSE
  /\ delegateTargets = EmptyMap /\ delegateTransferTokenId = NullText
  /\ card = InitialCard
  /\ clickCount = 0
  /\ writer = [h \in Handlers |-> IdleWriter]
  /\ ipfs = ImagePins(imageHash)
  /\ chain = Deployed
  /\ imageUpload = UploaderOf(imageHash)

Init == InitPage

MyStep(s) ==
  \/ loadAllMyNFTs_events(s)
  \/ loadAllMyNFTs_queryFails(s)
  \/ \E i \in 1 .. MaxEvents + 1 : loadAllMyNFTs_ownerOf(s, i)
  \/ \E i \in 1 .. MaxEvents + 1 : loadAllMyNFTs_tokenURI(s, i)
  \/ loadAllMyNFTs_done(s)

AllStep(s) ==
  \/ loadAllNFTs_events(s)
  \/ loadAllNFTs_queryFails(s)
  \/ \E i \in 1 .. MaxEvents + 1 : loadAllNFTs_reads(s, i)
  \/ loadAllNFTs_done(s)

ApprovedStep(s) ==
  \/ loadApprovedNFTs_events(s)
  \/ loadApprovedNFTs_queryFails(s)
  \/ \E i \in 1 .. MaxEvents + 1 : loadApprovedNFTs_reads(s, i)
  \/ \E i \in 1 .. MaxEvents + 1 : loadApprovedNFTs_isApprovedForAll(s, i)
  \/ loadApprovedNFTs_done(s)

TokenStep(s) == fetchTokenById_reads(s)

DataStep(s) == loadData_reads(s)

Next ==
  \/ \E mode \in QueryModes, s \in Slots : handleSelectQuery(mode, s)
  \/ \E value \in TokenIdInputs : setTokenIdInput(value)
  \/ \E s \in Slots : handleQueryToken(s)
  \/ \E s \in Slots : MyStep(s) \/ AllStep(s) \/ ApprovedStep(s) \/ TokenStep(s)

vars == <<readVars, writeVars, card, writer, ipfs, chain, imageUpload>>

Spec == Init /\ [][Next]_vars

\* The read pipeline on a chain whose reads all settle: a pass that has a
\* step to take (a read of its batch to settle, its Promise.all to resolve)
\* eventually takes one.
Settles(s) == MyStep(s) \/ AllStep(s) \/ ApprovedStep(s) \/ TokenStep(s)

SpecLive == Init /\ [][Next]_vars /\ \A s \in Slots : WF_vars(Settles(s))

(***************************************************************************)
(* The write handlers: a connected page whose lists are loaded and whose   *)
(* forms the user has filled in, and the handlers the user starts from it. *)
(***************************************************************************)
OwnedNFT ==
  [tokenId |-> BigIntToString(9), owner |-> "0xA", tokenURI |-> "ipfs://QmMeta"]

DelegatedNFT == DelegatedRecord(BigIntToString(10), "0xB", "ipfs://QmMeta", "single")

\* The forms a card can have open, filled in.
FilledCards ==
  {[InitialCard EXCEPT !.showTransfer = TRUE, !.transferTo = <<"0xB">>],
   [InitialCard EXCEPT !.showApprove = TRUE, !.approveTo = <<"0xB">>]}

InitWrite ==
  /\ hasProvider = TRUE
  /\ address \in WalletAccounts
  /\ myNFTs = <<OwnedNFT>> /\ allNFTs = <<>> /\ approvedNFTs = <<DelegatedNFT>>
  /\ tokenQueryResults = <<>> /\ lastQueriedTokenId = <<>>
  /\ isLoading = FALSE /\ isLoadingAllNFTs = FALSE
  /\ isLoadingApprovedNFTs = FALSE /\ isLoadingTokenQuery = FALSE
  /\ activeQuery \in {"my", "approved"} /\ tokenIdInput = <<>>
  /\ alerts = {}
  /\ passCount = 0
  /\ pass = [s \in Slots |-> IdlePass]
  /\ contractInfo = [name |-> ContractName, symbol |-> ContractSymbol] /\ balance = 1
  /\ mintTokenURI = <<"ipfs://QmMeta">> /\ isMinting = FALSE
  /\ imageHash = "QmImage" /\ imageUrl = getIPFSGatewayUrl("QmImage")
  /\ nftName = <<"Art">> /\ nftDescription = <<>>
  /\ mintMode \in {"image", "uri"} /\ isUploadingMetadata = FALSE
  /\ delegateTargets = MapSet(EmptyMap, DelegatedNFT.tokenId, <<"0xB">>)
  /\ delegateTransferTokenId = NullText
  /\ card \in IF activeQuery = "my" THEN FilledCards ELSE {InitialCard}
  /\ clickCount = 0
  /\ writer = [h \in Handlers |-> IdleWriter]
  /\ ipfs = ImagePins(imageHash)
  /\ chain = Deployed
  /\ imageUpload = UploaderOf(imageHash)

NextWrite ==
  \/ handleMintWithImage
  \/ handleMintWithImage_uploadMetadataToIPFS
  \/ handleMintWithImage_send
  \/ \E s \in Slots : handleMintWithImage_wait(s)
  \/ handleMintWithImage_loadAllNFTs
  \/ handleMintWithImage_finally
  \/ handleMintWithURI
  \/ handleMintWithURI_send
  \/ \E s \in Slots : handleMintWithURI_wait(s)
  \/ handleMintWithURI_loadAllNFTs
  \/ handleMintWithURI_finally
  \/ \E k \in 1 .. MaxEvents + 1 : handleDelegateTransfer(k)
  \/ handleDelegateTransfer_send
  \/ \E s \in Slots : handleDelegateTransfer_wait(s)
  \/ handleDelegateTransfer_loadAllNFTs
  \/ handleDelegateTransfer_finally
  \/ handleApprove
  \/ handleApprove_send
  \/ \E s \in Slots : handleApprove_wait(s)
  \/ handleTransfer
  \/ handleTransfer_send
  \/ \E s \in Slots : handleTransfer_wait(s)
  \/ handleRefresh_loadApprovedNFTs
  \/ handleRefresh_refreshActiveQuery
  \/ handleRefresh_done
  \/ \E s \in Slots : DataStep(s) \/ MyStep(s) \/ AllStep(s) \/ ApprovedStep(s)

SpecWrite == InitWrite /\ [][NextWrite]_vars



(***************************************************************************)
(* The card of an owned token and a mint by image: the page of a connected *)
(* user on the 'my' tab.                                                   *)
(***************************************************************************)
\* The document a mint of "Art" without a description has pinned.
ArtMetadata ==
  [name |-> <<"Art">>, description |-> <<"Art", " NFT">>, image |-> getIPFSUrl("QmImage")]

\* The card's state after it has loaded and shown ArtMetadata.
ShownCard ==
  [InitialCard EXCEPT
     !.metadata = JSONParse(JSONStringify(ArtMetadata)),
     !.imageUrl = getIPFSGatewayUrl("QmImage"),
     !.loads = <<[pc |-> "fulfilled", tokenURI |-> "ipfs://QmMeta",
                  url |-> getIPFSGatewayUrl("QmMeta"),
                  body |-> JSONStringify(ArtMetadata), error |-> "none"]>>,
     !.effect = ""]

\* Either the card has just been mounted for a token whose URI names a
\* document to be pinned or the image itself; or it is what three
\* overlapping owned-by passes leave when the first stored the token with its
\* URI (the card mounted and showed the document), the second stored it with
\* '' (its tokenURI read failed, line 191) and the third is still running:
\* isLoading is false since the first returned.
InitCard ==
  /\ hasProvider = TRUE
  /\ address \in WalletAccounts
  /\ allNFTs = <<>> /\ approvedNFTs = <<>>
  /\ tokenQueryResults = <<>> /\ lastQueriedTokenId = <<>>
  /\ isLoading = FALSE /\ isLoadingAllNFTs = FALSE
  /\ isLoadingApprovedNFTs = FALSE /\ isLoadingTokenQuery = FALSE
  /\ activeQuery = "my" /\ tokenIdInput = <<>>
  /\ alerts = {}
  /\ passCount = 0
  /\ contractInfo = [name |-> ContractName, symbol |-> ContractSymbol] /\ balance = 1
  /\ mintTokenURI = <<>> /\ isMinting = FALSE
  /\ mintMode = "image" /\ isUploadingMetadata = FALSE
  /\ delegateTargets = EmptyMap
  /\ delegateTransferTokenId = NullText
  /\ clickCount = 0
  /\ writer = [h \in Handlers |-> IdleWriter]
  /\ chain = Deployed
  /\ imageUpload = UploaderOf("QmImage")
  /\ \/ \* the form is filled in
        /\ \E uri \in {"ipfs://QmMeta", "ipfs://QmImage"} :
             myNFTs = <<[OwnedNFT EXCEPT !.tokenURI = uri]>>
        /\ imageHash = "QmImage" /\ imageUrl = getIPFSGatewayUrl("QmImage")
        /\ nftName = <<"Art">>
        /\ nftDescription \in {<<>>, <<"a drawing">>}
        /\ card = InitialCard
        /\ pass = [s \in Slots |-> IdlePass]
        /\ ipfs = ImagePins("QmImage")
     \/ \* the form has been reset by the mint of ArtMetadata
        /\ myNFTs = <<[OwnedNFT EXCEPT !.tokenURI = ""]>>
        /\ imageHash = NullString /\ imageUrl = NullText
        /\ nftName = <<>> /\ nftDescription = <<>>
        /\ card = ShownCard
        /\ pass = [s \in Slots |->
                     IF s = "p" THEN NewPass("my", "queryFilter", address, FALSE)
                     ELSE IdlePass]
        /\ ipfs = MapSet(ImagePins("QmImage"), "QmMeta", JSONStringify(ArtMetadata))

NextCard ==
  \/ useEffect_tokenURI
  \/ \E k \in 1 .. 2 : loadMetadata_fetch(k)
  \/ \E k \in 1 .. 2 : loadMetadata_json(k)
  \/ handleMintWithImage
  \/ handleMintWithImage_uploadMetadataToIPFS
  \/ handleMintWithImage_send
  \/ \E s \in Slots : handleMintWithImage_wait(s)
  \/ handleMintWithImage_loadAllNFTs
  \/ handleMintWithImage_finally
  \/ \E s \in Slots : DataStep(s) \/ MyStep(s) \/ AllStep(s)

SpecCard == InitCard /\ [][NextCard]_vars

(***************************************************************************)
(* handleAccountsChanged (page.tsx:80-94), the listener of the wallet's    *)
(* accountsChanged event.                                                  *)
(***************************************************************************)
\* The account lists the wallet reports: none, or the accounts it exposes.
AccountLists == {<<>>, <<"0xa">>, <<"0xb">>, <<"0xb", "0xa">>}

\* handleAccountsChanged clearing the owned list on a switch of account too.
handleAccountsChangedClearsOwned(accounts) ==
  /\ hasProvider
  /\ IF Len(accounts) = 0
       THEN /\ address' = ""
            /\ myNFTs' = <<>> /\ allNFTs' = <<>> /\ approvedNFTs' = <<>>
            /\ delegateTargets' = EmptyMap
            /\ contractInfo' = Null /\ balance' = 0
            /\ UNCHANGED <<loadingVars, pass, passCount>>
       ELSE /\ Free("p") /\ Free("q")
            /\ passCount < MaxPasses
            /\ passCount' = passCount + 1
            /\ address' = accounts[1]
            /\ myNFTs' = <<>>
            /\ isLoading' = TRUE
            /\ isLoadingApprovedNFTs' = TRUE
            /\ pass' = [s \in Slots |->
                          IF s = "p" THEN NewPass("data", "reads", accounts[1], FALSE)
                          ELSE NewPass("approved", "queryFilter", accounts[1], TRUE)]
            /\ UNCHANGED <<allNFTs, approvedNFTs, delegateTargets, contractInfo,
                           balance, isLoadingAllNFTs, isLoadingTokenQuery>>
  /\ UNCHANGED <<hasProvider, tokenQueryResults, lastQueriedTokenId, queryVars, alerts,
                 mintTokenURI, imageHash, imageUrl, nftName, nftDescription, mintMode,
                 flagVars, clickCount>>
  /\ Render(card, writer)

\* Lines 81-93: with no account the page state is cleared; otherwise the
\* first account becomes the address and loadData and loadApprovedNFTs are
\* both called, neither awaited: each runs up to its first await (lines
\* 130-141 and 271-291; accounts[0] is a non-empty string and the event comes
\* from window.ethereum, so neither returns early).
handleAccountsChanged(accounts) ==
  /\ hasProvider
  /\ IF Len(accounts) = 0
       THEN /\ address' = ""
            /\ myNFTs' = <<>> /\ allNFTs' = <<>> /\ approvedNFTs' = <<>>
            /\ delegateTargets' = EmptyMap
            /\ contractInfo' = Null /\ balance' = 0
            /\ UNCHANGED <<loadingVars, pass, passCount>>
       ELSE /\ Free("p") /\ Free("q")
            /\ passCount < MaxPasses
            /\ passCount' = passCount + 1
            /\ address' = accounts[1]
            /\ isLoading' = TRUE
            /\ isLoadingApprovedNFTs' = TRUE
            /\ pass' = [s \in Slots |->
                          IF s = "p" THEN NewPass("data", "reads", accounts[1], FALSE)
                          ELSE NewPass("approved", "queryFilter", accounts[1], TRUE)]
            /\ UNCHANGED <<myNFTs, allNFTs, approvedNFTs, delegateTargets, contractInfo,
                           balance, isLoadingAllNFTs, isLoadingTokenQuery>>
  /\ UNCHANGED <<hasProvider, tokenQueryResults, lastQueriedTokenId, queryVars, alerts,
                 mintTokenURI, imageHash, imageUrl, nftName, nftDescription, mintMode,
                 flagVars, clickCount>>
  /\ Render(card, writer)

\* A connected page in use: its lists are loaded, a token has been looked up.
InitAccounts ==
  /\ hasProvider = TRUE
  /\ address \in WalletAccounts
  /\ myNFTs = <<OwnedNFT>> /\ allNFTs = <<OwnedNFT>> /\ approvedNFTs = <<DelegatedNFT>>
  /\ tokenQueryResults = <<OwnedNFT>> /\ lastQueriedTokenId = <<"9">>
  /\ isLoading = FALSE /\ isLoadingAllNFTs = FALSE
  /\ isLoadingApprovedNFTs = FALSE /\ isLoadingTokenQuery = FALSE
  /\ activeQuery \in {"my", "approved"} /\ tokenIdInput = <<"9">>
  /\ alerts = {}
  /\ passCount = 0
  /\ pass = [s \in Slots |-> IdlePass]
  /\ contractInfo = [name |-> ContractName, symbol |-> ContractSymbol] /\ balance = 1
  /\ mintTokenURI = <<>> /\ isMinting = FALSE
  /\ imageHash = NullString /\ imageUrl = NullText
  /\ nftName = <<>> /\ nftDescription = <<>>
  /\ mintMode = "image" /\ isUploadingMetadata = FALSE
  /\ delegateTargets = MapSet(EmptyMap, DelegatedNFT.tokenId, <<"0xB">>)
  /\ delegateTransferTokenId = NullText
  /\ card = InitialCard
  /\ clickCount = 0
  /\ writer = [h \in Handlers |-> IdleWriter]
  /\ ipfs = NoPins
  /\ chain = Deployed
  /\ imageUpload = UploaderOf(imageHash)

NextAccounts ==
  \/ \E accounts \in AccountLists : handleAccountsChanged(accounts)
  \/ \E s \in Slots : DataStep(s) \/ ApprovedStep(s)

SpecAccounts == InitAccounts /\ [][NextAccounts]_vars

(***************************************************************************)
(* The refresh button next to the query buttons: a connected user opens    *)
(* the owned-by tab and presses refresh; handleRefresh is followed up to   *)
(* the end of its loadData call.                                           *)
(***************************************************************************)
InitRefresh ==
  /\ InitPage
  /\ hasProvider /\ address \in WalletAccounts

NextRefresh ==
  \/ \E s \in Slots : handleSelectQuery("my", s)
  \/ \E s \in Slots : handleRefresh_click(s)
  \/ \E s \in Slots : DataStep(s) \/ MyStep(s)

SpecRefresh == InitRefresh /\ [][NextRefresh]_vars

(***************************************************************************)
(* The token lookup: a page without a connected wallet on the 'token' tab, *)
(* after token 10 has been looked up.                                      *)
(***************************************************************************)
LookedUpNFT ==
  [tokenId |-> BigIntToString(10), owner |-> "0xB", tokenURI |-> "ipfs://QmMeta"]

InitToken ==
  /\ hasProvider \in BOOLEAN
  /\ address = ""
  /\ myNFTs = <<>> /\ allNFTs = <<>> /\ approvedNFTs = <<>>
  /\ tokenQueryResults = <<LookedUpNFT>> /\ lastQueriedTokenId = LookedUpNFT.tokenId
  /\ isLoading = FALSE /\ isLoadingAllNFTs = FALSE
  /\ isLoadingApprovedNFTs = FALSE /\ isLoadingTokenQuery = FALSE
  /\ activeQuery = "token" /\ tokenIdInput \in TokenIdInputs
  /\ alerts = {}
  /\ passCount = 0
  /\ pass = [s \in Slots |-> IdlePass]
  /\ contractInfo = Null /\ balance = 0
  /\ mintTokenURI = <<>> /\ isMinting = FALSE
  /\ imageHash = NullString /\ imageUrl = NullText /\ nftName = <<>> /\ nftDescription = <<>>
  /\ mintMode = "image" /\ isUploadingMetadata = FALSE
  /\ delegateTargets = EmptyMap /\ delegateTransferTokenId = NullText
  /\ card = InitialCard
  /\ clickCount = 0
  /\ writer = [h \in Handlers |-> IdleWriter]
  /\ ipfs = NoPins
  /\ chain = Deployed
  /\ imageUpload = UploaderOf(imageHash)

NextToken ==
  \/ \E value \in TokenIdInputs : setTokenIdInput(value)
  \/ \E s \in Slots : handleQueryToken(s)
  \/ \E s \in Slots : handleRefresh_click(s)
  \/ handleRefresh_done
  \/ \E s \in Slots : TokenStep(s)

SpecToken == InitToken /\ [][NextToken]_vars

(***************************************************************************)
(* The mint form and the contract: the safeMint transaction a mint handler *)
(* has sent is included in a block, and tx.wait() settles by its receipt.  *)
(***************************************************************************)
\* The accounts MetaMask may have connected, as eth_accounts reports them.
MintWallets == {"0xa", "0xb"}

MintHandlers == {"handleMintWithImage", "handleMintWithURI"}

\* The account an address string names, whatever its case.
getAddress(addr) == CHOOSE a \in Accounts : SameAddress(a, addr)

InitMint ==
  /\ hasProvider = TRUE
  /\ address \in MintWallets
  /\ myNFTs = <<>> /\ allNFTs = <<>> /\ approvedNFTs = <<>>
  /\ tokenQueryResults = <<>> /\ lastQueriedTokenId = <<>>
  /\ isLoading = FALSE /\ isLoadingAllNFTs = FALSE
  /\ isLoadingApprovedNFTs = FALSE /\ isLoadingTokenQuery = FALSE
  /\ activeQuery = "approved" /\ tokenIdInput = <<>>
  /\ alerts = {}
  /\ passCount = 0
  /\ pass = [s \in Slots |-> IdlePass]
  /\ contractInfo = [name |-> ContractName, symbol |-> ContractSymbol] /\ balance = 0
  /\ mintTokenURI = <<"ipfs://QmMeta">> /\ isMinting = FALSE
  /\ imageHash = "QmImage" /\ imageUrl = getIPFSGatewayUrl("QmImage")
  /\ nftName = <<"Art">> /\ nftDescription = <<>>
  /\ mintMode \in {"image", "uri"} /\ isUploadingMetadata = FALSE
  /\ delegateTargets = EmptyMap /\ delegateTransferTokenId = NullText
  /\ card = InitialCard
  /\ clickCount = 0
  /\ writer = [h \in Handlers |-> IdleWriter]
  /\ ipfs = ImagePins(imageHash)
  /\ chain = Deployed
  /\ imageUpload = UploaderOf(imageHash)

\* page.tsx:486-495 and 521-526 with part_000:22-30: the transaction of
\* handler h is included, signed by the connected account, and tx.wait()
\* settles: it rejects when the transaction reverted.
handleMint_wait(h, s) ==
  LET w == writer[h]
      result == IF ~onlyOwner(chain, getAddress(w.address)) THEN Reverted
                ELSE safeMintBody(chain, getAddress(w.call[2]), w.call[3])
  IN  /\ Quiescent /\ w.pc = "wait" /\ Allocates(s)
      /\ Len(chain.receipts) < MaxMints
      /\ chain' = IF result = Reverted
                    THEN [chain EXCEPT !.receipts = Append(@, "reverted")]
                    ELSE [result EXCEPT !.receipts = Append(@, "success")]
      /\ \E settled \in Settlements :
           /\ result = Reverted => settled # Resolve
           /\ IF settled # Resolve
                THEN /\ alerts' = alerts \cup {AlertText(settled, AlertMintFailed)}
                     /\ isMinting' = FALSE
                     /\ isUploadingMetadata' =
                          (IF h = "handleMintWithImage" THEN FALSE ELSE isUploadingMetadata)
                     /\ UNCHANGED <<pageFrame, pass, dataVars, inputVars,
                                    delegateTransferTokenId, clickCount>>
                     /\ RenderPage(card, [writer EXCEPT ![h] = Failed(w, settled)])
                ELSE /\ IF h = "handleMintWithImage"
                          THEN /\ imageHash' = NullString /\ imageUrl' = NullText
                               /\ nftName' = <<>> /\ nftDescription' = <<>>
                               /\ UNCHANGED mintTokenURI
                          ELSE /\ mintTokenURI' = <<>>
                               /\ UNCHANGED <<imageHash, imageUrl, nftName, nftDescription>>
                     /\ loadData(s, w.address, alerts \cup {AlertMintDone})
                     /\ UNCHANGED <<activeQuery, passCount, dataVars, mintMode,
                                    delegateTargets, flagVars, clickCount>>
                     /\ RenderPage(card, [writer EXCEPT ![h] =
                          [w EXCEPT !.pc = "loadData", !.slot = s]])
      /\ UNCHANGED <<ipfs, imageUpload>>

NextMint ==
  \/ handleMintWithImage
  \/ handleMintWithImage_uploadMetadataToIPFS
  \/ handleMintWithImage_send
  \/ handleMintWithImage_loadAllNFTs
  \/ handleMintWithImage_finally
  \/ handleMintWithURI
  \/ handleMintWithURI_send
  \/ handleMintWithURI_loadAllNFTs
  \/ handleMintWithURI_finally
  \/ \E h \in MintHandlers, s \in Slots : handleMint_wait(h, s)
  \/ \E s \in Slots : DataStep(s) \/ AllStep(s)

SpecMint == InitMint /\ [][NextMint]_vars

(***************************************************************************)
(* ImageUpload (part_000:52-206) in the mint form of a connected user.     *)
(***************************************************************************)
MaxFileSize == 10 * 1024 * 1024

ArtFile == [name |-> "art.png", type |-> <<"image/", "png">>, size |-> 1024]

PhotoFile == [name |-> "photo.png", type |-> <<"image/", "png">>, size |-> 2048]

NotesFile == [name |-> "notes.txt", type |-> <<"text/", "plain">>, size |-> 1024]

HugeFile == [name |-> "huge.png", type |-> <<"image/", "png">>, size |-> MaxFileSize + 1]

Files == {ArtFile, PhotoFile, NotesFile, HugeFile}

\* event.target.files?.[0]: undefined when the dialog was cancelled.
NoFile == [name |-> NullString, type |-> <<>>, size |-> 0]

\* ipfs.ts:27-73: the CID Pinata answers with is the hash of the file.
IpfsHash(file) == IF file = ArtFile.name THEN "QmImage" ELSE "QmPhoto"

AlertImageOnly == "only image files can be uploaded"

AlertFileTooLarge == "the file must be 10MB or smaller"

AlertImageUploadFailed == "image upload failed"

\* page.tsx:972: the disabled prop of the uploader.
disabled == isMinting \/ isUploadingMetadata

\* page.tsx:952-973: the uploader is rendered in mint mode 'image'.
UploaderMounted == address # "" /\ mintMode = "image"

UploadFrame == UNCHANGED <<pageFrame, pass, dataVars, flagVars, clickCount, chain>>

\* part_000:71-96.
handleFileSelect(file) ==
  /\ UploaderMounted /\ ~(disabled \/ imageUpload.isUploading)
  /\ IF file = NoFile
       THEN UNCHANGED <<alerts, imageUpload>>
     ELSE IF ~startsWith(file.type, "image/")
       THEN alerts' = alerts \cup {AlertImageOnly} /\ UNCHANGED imageUpload
     ELSE IF file.size > MaxFileSize
       THEN alerts' = alerts \cup {AlertFileTooLarge} /\ UNCHANGED imageUpload
     ELSE /\ imageUpload' = [imageUpload EXCEPT !.selectedFile = file.name,
                                                !.uploadedHash = NullString]
          /\ UNCHANGED alerts
  /\ UNCHANGED <<inputVars, ipfs>>
  /\ UploadFrame
  /\ RenderPage(card, writer)

\* part_000:98-104: up to the await of uploadFileToIPFS.  The button is
\* rendered while a preview is shown and nothing is uploaded (part_000:170-178).
handleUpload ==
  /\ UploaderMounted /\ ~(disabled \/ imageUpload.isUploading)
  /\ imageUpload.selectedFile # NullString /\ imageUpload.uploadedHash = NullString
  /\ imageUpload.call = NoUpload
  /\ imageUpload' = [imageUpload EXCEPT !.isUploading = TRUE,
                                         !.call = [file |-> imageUpload.selectedFile,
                                                   live |-> TRUE]]
  /\ UNCHANGED <<alerts, inputVars, ipfs>>
  /\ UploadFrame
  /\ RenderPage(card, writer)

\* part_000:104-116, page.tsx:442-445: uploadFileToIPFS settles.  The setters
\* of an unmounted uploader change nothing; onImageUploaded is the page's.
handleUpload_done ==
  LET call == imageUpload.call
      hash == IpfsHash(call.file)
  IN  /\ call # NoUpload
      /\ \E settled \in Settlements :
           IF settled = Resolve
             THEN /\ imageUpload' = [imageUpload EXCEPT
                       !.uploadedHash = IF call.live THEN hash ELSE @,
                       !.isUploading = IF call.live THEN FALSE ELSE @,
                       !.call = NoUpload]
                  /\ imageHash' = hash
                  /\ imageUrl' = getIPFSGatewayUrl(hash)
                  /\ ipfs' = MapSet(ipfs, hash, <<call.file>>)
                  /\ UNCHANGED <<alerts, mintTokenURI, nftName, nftDescription, mintMode,
                                 delegateTargets>>
             ELSE /\ imageUpload' = [imageUpload EXCEPT
                       !.isUploading = IF call.live THEN FALSE ELSE @,
                       !.call = NoUpload]
                  /\ alerts' = alerts \cup {AlertText(settled, AlertImageUploadFailed)}
                  /\ UNCHANGED <<inputVars, ipfs>>
      /\ UploadFrame
      /\ RenderPage(card, writer)

\* part_000:118-125; the button is rendered like that of handleUpload
\* (part_000:179-185).
handleReset ==
  /\ UploaderMounted /\ ~(disabled \/ imageUpload.isUploading)
  /\ imageUpload.selectedFile # NullString /\ imageUpload.uploadedHash = NullString
  /\ imageUpload' = [imageUpload EXCEPT !.selectedFile = NullString,
                                         !.uploadedHash = NullString]
  /\ UNCHANGED <<alerts, inputVars, ipfs>>
  /\ UploadFrame
  /\ RenderPage(card, writer)

\* page.tsx:920-950: the two mode buttons.  Leaving mode 'image' unmounts the
\* uploader, entering it mounts a fresh one (page.tsx:952).
setMintMode(mode) ==
  /\ address # ""
  /\ mintMode' = mode
  /\ imageUpload' = IF mode = mintMode THEN imageUpload
                    ELSE [InitialUpload EXCEPT
                            !.call = IF imageUpload.call = NoUpload THEN NoUpload
                                     ELSE [imageUpload.call EXCEPT !.live = FALSE]]
  /\ UNCHANGED <<alerts, mintTokenURI, imageHash, imageUrl, nftName, nftDescription,
                 delegateTargets, ipfs>>
  /\ UploadFrame
  /\ RenderPage(card, writer)

InitUpload == InitPage /\ hasProvider /\ address \in WalletAccounts

NextUpload ==
  \/ \E file \in Files \cup {NoFile} : handleFileSelect(file)
  \/ handleUpload
  \/ handleUpload_done
  \/ handleReset
  \/ \E mode \in {"image", "uri"} : setMintMode(mode)

SpecUpload == InitUpload /\ [][NextUpload]_vars

(***************************************************************************)
(* Two delegated transfers: the 'approved' tab of a user who is delegate   *)
(* of tokens 10 and 9 and has just started the transfer of token 10.  The  *)
(* calls are followed up to the confirmation of their transactions.        *)
(***************************************************************************)
\* The call of handleDelegateTransfer that is already running.
EarlierTransfer == "handleDelegateTransfer (earlier call)"

OtherDelegatedNFT == DelegatedRecord(BigIntToString(9), "0xB", "ipfs://QmMeta", "single")

InitDelegate ==
  /\ hasProvider = TRUE
  /\ address \in WalletAccounts
  /\ myNFTs = <<>> /\ allNFTs = <<>> /\ approvedNFTs = <<DelegatedNFT, OtherDelegatedNFT>>
  /\ tokenQueryResults = <<>> /\ lastQueriedTokenId = <<>>
  /\ isLoading = FALSE /\ isLoadingAllNFTs = FALSE
  /\ isLoadingApprovedNFTs = FALSE /\ isLoadingTokenQuery = FALSE
  /\ activeQuery = "approved" /\ tokenIdInput = <<>>
  /\ alerts = {}
  /\ passCount = 0
  /\ pass = [s \in Slots |-> IdlePass]
  /\ contractInfo = [name |-> ContractName, symbol |-> ContractSymbol] /\ balance = 0
  /\ mintTokenURI = <<>> /\ isMinting = FALSE
  /\ imageHash = NullString /\ imageUrl = NullText
  /\ nftName = <<>> /\ nftDescription = <<>>
  /\ mintMode = "image" /\ isUploadingMetadata = FALSE
  /\ \E target \in {<<>>, <<"0xB">>, <<" ", "0xB">>} :
       delegateTargets = MapSet(MapSet(EmptyMap, DelegatedNFT.tokenId, <<"0xB">>),
                                OtherDelegatedNFT.tokenId, target)
  /\ delegateTransferTokenId = DelegatedNFT.tokenId
  /\ card = InitialCard
  /\ clickCount = 0
  /\ writer = [h \in Handlers \cup {EarlierTransfer} |->
                 IF h = EarlierTransfer
                   THEN [IdleWriter EXCEPT
                           !.pc = "send", !.address = address,
                           !.call = <<"safeTransferFrom", DelegatedNFT.owner, <<"0xB">>,
                                      DelegatedNFT.tokenId>>]
                   ELSE IdleWriter]
  /\ ipfs = NoPins
  /\ chain = Deployed
  /\ imageUpload = UploaderOf(imageHash)

\* page.tsx:575-593 for the earlier call: getSigner and safeTransferFrom
\* settle, tx.wait() rejects; catch and finally.
handleDelegateTransfer_earlier ==
  LET h == EarlierTransfer
      w == writer[h]
  IN  /\ Quiescent /\ w.pc \in {"send", "wait"}
      /\ \E settled \in Settlements :
           IF settled # Resolve
             THEN /\ alerts' = alerts \cup {AlertText(settled, AlertDelegateFailed)}
                  /\ delegateTransferTokenId' = NullText
                  /\ UNCHANGED <<pageFrame, pass, dataVars, inputVars, isMinting,
                                 isUploadingMetadata, clickCount>>
                  /\ Render(card, [writer EXCEPT ![h] = Failed(w, settled)])
             ELSE /\ w.pc = "send"
                  /\ UNCHANGED <<pageFrame, pass, alerts, writeVars>>
                  /\ Render(card, [writer EXCEPT ![h].pc = "wait"])

\* page.tsx:580, 588-593 for the later call: tx.wait() rejects.
handleDelegateTransfer_waitFails ==
  /\ Quiescent /\ writer["handleDelegateTransfer"].pc = "wait"
  /\ \E message \in ErrorMessages : handleDelegateTransfer_catch(message)

NextDelegate ==
  \/ \E k \in 1 .. MaxEvents : handleDelegateTransfer(k)
  \/ handleDelegateTransfer_send
  \/ handleDelegateTransfer_waitFails
  \/ handleDelegateTransfer_earlier

SpecDelegate == InitDelegate /\ [][NextDelegate]_vars

(***************************************************************************)
(* The locators a card resolves: the card of a token whose URI is any      *)
(* locator, and whose document names its image by any locator.             *)
(***************************************************************************)
Locators ==
  {"ipfs://QmMeta", "ipfs://QmImage", "https://ipfs.io/ipfs/QmMeta",
   "https://ipfs.io/ipfs/QmImage", "https://gateway.pinata.cloud/ipfs/QmMeta",
   "https://example.com/art.png"}

InitLocator ==
  /\ hasProvider = TRUE
  /\ address \in WalletAccounts
  /\ allNFTs = <<>> /\ approvedNFTs = <<>>
  /\ tokenQueryResults = <<>> /\ lastQueriedTokenId = <<>>
  /\ isLoading = FALSE /\ isLoadingAllNFTs = FALSE
  /\ isLoadingApprovedNFTs = FALSE /\ isLoadingTokenQuery = FALSE
  /\ activeQuery = "my" /\ tokenIdInput = <<>>
  /\ alerts = {}
  /\ passCount = 0
  /\ pass = [s \in Slots |-> IdlePass]
  /\ contractInfo = [name |-> ContractName, symbol |-> ContractSymbol] /\ balance = 1
  /\ mintTokenURI = <<>> /\ isMinting = FALSE
  /\ imageHash = NullString /\ imageUrl = NullText
  /\ nftName = <<>> /\ nftDescription = <<>>
  /\ mintMode = "image" /\ isUploadingMetadata = FALSE
  /\ delegateTargets = EmptyMap
  /\ delegateTransferTokenId = NullText
  /\ clickCount = 0
  /\ writer = [h \in Handlers |-> IdleWriter]
  /\ chain = Deployed
  /\ imageUpload = UploaderOf(imageHash)
  /\ card = InitialCard
  /\ \E uri \in Locators : myNFTs = <<[OwnedNFT EXCEPT !.tokenURI = uri]>>
  /\ \E image \in Locators \cup {""} :
       ipfs = MapSet(ImagePins("QmImage"), "QmMeta",
                     JSONStringify([ArtMetadata EXCEPT !.image = Text(image)]))

NextLocator ==
  \/ useEffect_tokenURI
  \/ \E k \in 1 .. 2 : loadMetadata_fetch(k)
  \/ \E k \in 1 .. 2 : loadMetadata_json(k)

SpecLocator == InitLocator /\ [][NextLocator]_vars

\* The write handlers of a user who may also open the 'token' tab, which
\* starts no pass, at any moment.
NextTabs ==
  \/ NextWrite
  \/ \E s \in Slots : handleSelectQuery("token", s)

SpecTabs == InitWrite /\ [][NextTabs]_vars

\* The contract alone, as the accounts of the chain call it.
NextContract ==
  \E sender \in Senders, to \in Receivers, uri \in MintURIs : safeMint(sender, to, uri)

SpecContract == InitPage /\ [][NextContract]_vars

(***************************************************************************)
(* Overlapping passes: a page without a connected account whose user opens *)
(* the 'all' tab and presses the refresh button while that pass runs.      *)
(***************************************************************************)
InitRace ==
  /\ InitPage
  /\ hasProvider /\ address = ""

NextRace ==
  \/ \E s \in Slots : handleSelectQuery("all", s)
  \/ \E s \in Slots : handleRefresh_click(s)
  \/ handleRefresh_done
  \/ \E s \in Slots : AllStep(s)

SpecRace == InitRace /\ [][NextRace]_vars

(***************************************************************************)
(* Overlapping writes: a page on which one write has been submitted and is *)
(* not yet confirmed, and the handlers the user can start meanwhile.       *)
(***************************************************************************)
\* The cards of InitWrite once their handler has been started.
SubmittedCards ==
  {[InitialCard EXCEPT !.showTransfer = TRUE, !.transferTo = <<"0xB">>,
                       !.isTransferring = TRUE],
   [InitialCard EXCEPT !.showApprove = TRUE, !.approveTo = <<"0xB">>,
                       !.isApproving = TRUE]}

InitOverlap ==
  /\ hasProvider = TRUE
  /\ address \in WalletAccounts
  /\ myNFTs = <<OwnedNFT>> /\ allNFTs = <<>> /\ approvedNFTs = <<DelegatedNFT>>
  /\ tokenQueryResults = <<>> /\ lastQueriedTokenId = <<>>
  /\ isLoading = FALSE /\ isLoadingAllNFTs = FALSE
  /\ isLoadingApprovedNFTs = FALSE /\ isLoadingTokenQuery = FALSE
  /\ activeQuery \in {"my", "approved"} /\ tokenIdInput = <<>>
  /\ alerts = {}
  /\ passCount = 0
  /\ pass = [s \in Slots |-> IdlePass]
  /\ contractInfo = [name |-> ContractName, symbol |-> ContractSymbol] /\ balance = 1
  /\ mintTokenURI = <<"ipfs://QmMeta">>
  /\ imageHash = "QmImage" /\ imageUrl = getIPFSGatewayUrl("QmImage")
  /\ nftName = <<"Art">> /\ nftDescription = <<>>
  /\ isUploadingMetadata = FALSE
  /\ delegateTargets = MapSet(EmptyMap, DelegatedNFT.tokenId, <<"0xB">>)
  /\ delegateTransferTokenId = NullText
  /\ clickCount = 0
  /\ IF activeQuery = "my"
       THEN \* a card's transfer or approval has been submitted
            /\ mintMode \in {"image", "uri"} /\ isMinting = FALSE
            /\ card \in SubmittedCards
            /\ writer =
                 [h \in Handlers |->
                    IF h = "handleTransfer" /\ card.isTransferring
                      THEN CardClosure("send", <<"safeTransferFrom", address,
                                                 card.transferTo, myNFTs[1].tokenId>>)
                    ELSE IF h = "handleApprove" /\ card.isApproving
                      THEN CardClosure("send", <<"approve", card.approveTo,
                                                 myNFTs[1].tokenId>>)
                    ELSE IdleWriter]
       ELSE \* a mint by URI has been submitted
            /\ mintMode = "uri" /\ isMinting = TRUE
            /\ card = InitialCard
            /\ writer =
                 [h \in Handlers |->
                    IF h = "handleMintWithURI"
                      THEN [IdleWriter EXCEPT !.pc = "send", !.address = address,
                                              !.call = <<"safeMint", address, mintTokenURI>>]
                      ELSE IdleWriter]
  /\ ipfs = ImagePins(imageHash)
  /\ chain = Deployed
  /\ imageUpload = UploaderOf(imageHash)

\* The write handlers up to the wallet's answer to their submission.
NextOverlap ==
  \/ handleMintWithImage
  \/ handleMintWithImage_uploadMetadataToIPFS
  \/ handleMintWithImage_send
  \/ handleMintWithURI
  \/ handleMintWithURI_send
  \/ \E k \in 1 .. MaxEvents + 1 : handleDelegateTransfer(k)
  \/ handleDelegateTransfer_send
  \/ handleApprove
  \/ handleApprove_send
  \/ handleTransfer
  \/ handleTransfer_send

SpecOverlap == InitOverlap /\ [][NextOverlap]_vars

(***************************************************************************)
(* The validations of the write handlers: a page whose forms hold what the *)
(* user typed, valid or not, and the handlers called on it.                *)
(***************************************************************************)
\* What the user can have typed into a name, a URI and an address field.
InputNames == {<<>>, <<" ">>, <<"Art">>}

InputURIs == {<<>>, <<" ">>, <<"ipfs://QmMeta">>}

InputAddresses == {<<>>, <<" ">>, <<"0xZ">>, <<" ", "0xB">>, <<"0xB">>}

\* A card whose transfer or approve form is open, with `to` typed in.
OpenCards(to) ==
  {[InitialCard EXCEPT !.showTransfer = TRUE, !.transferTo = to],
   [InitialCard EXCEPT !.showApprove = TRUE, !.approveTo = to]}

InitInput ==
  /\ hasProvider = TRUE
  /\ address \in {""} \cup WalletAccounts
  /\ myNFTs = (IF address = "" THEN <<>> ELSE <<OwnedNFT>>)
  /\ allNFTs = <<>>
  /\ approvedNFTs = (IF address = "" THEN <<>> ELSE <<DelegatedNFT>>)
  /\ tokenQueryResults = <<>> /\ lastQueriedTokenId = <<>>
  /\ isLoading = FALSE /\ isLoadingAllNFTs = FALSE
  /\ isLoadingApprovedNFTs = FALSE /\ isLoadingTokenQuery = FALSE
  /\ activeQuery \in {"my", "approved"} /\ tokenIdInput = <<>>
  /\ alerts = {}
  /\ passCount = 0
  /\ pass = [s \in Slots |-> IdlePass]
  /\ contractInfo = (IF address = "" THEN Null
                     ELSE [name |-> ContractName, symbol |-> ContractSymbol])
  /\ balance = (IF address = "" THEN 0 ELSE 1)
  /\ mintTokenURI \in InputURIs /\ isMinting = FALSE
  /\ imageHash \in {NullString, "QmImage"}
  /\ imageUrl = (IF imageHash = NullString THEN NullText ELSE getIPFSGatewayUrl(imageHash))
  /\ nftName \in InputNames /\ nftDescription = <<>>
  /\ mintMode \in {"image", "uri"} /\ isUploadingMetadata = FALSE
  /\ delegateTargets \in
       {EmptyMap} \cup {MapSet(EmptyMap, DelegatedNFT.tokenId, to) : to \in InputAddresses}
  /\ delegateTransferTokenId = NullText
  /\ card \in IF activeQuery = "my" /\ address # ""
               THEN UNION {OpenCards(to) : to \in InputAddresses}
               ELSE {InitialCard}
  /\ clickCount = 0
  /\ writer = [h \in Handlers |-> IdleWriter]
  /\ ipfs = ImagePins(imageHash)
  /\ chain = Deployed
  /\ imageUpload = UploaderOf(imageHash)

NextInput ==
  \/ handleMintWithImage_call
  \/ handleMintWithURI
  \/ \E k \in 1 .. MaxEvents + 1 : handleDelegateTransfer(k)
  \/ handleApprove
  \/ handleTransfer

SpecInput == InitInput /\ [][NextInput]_vars


(***************************************************************************)
(* Properties of the read passes.                                          *)
(***************************************************************************)
\* The token ids of a stored result set.
Ids(nfts) == {nfts[k].tokenId : k \in DOMAIN nfts}

Stored(s, mode) ==
  pass[s].mode = mode /\ pass[s].pc = "done" /\ pass[s].outcome = "stored"

Resolved(outcome) == outcome \notin {Reject, Unread}

\* The read `outcome` resolved to the address `subject`, case-insensitively.
Returned(outcome, subject) ==
  Resolved(outcome) /\ ToLowerCase(outcome) = ToLowerCase(subject)

\* An isApprovedForAll call was issued on behalf of candidate i of pass s.
OperatorCallIssued(s, i) ==
  pass[s].task[i].pc = "isApprovedForAll" \/ pass[s].task[i].isApprovedForAll # Unread

\* C1: after an owned-by pass for subject S, myNFTs holds a record for token t
\* exactly when some Transfer event received by S carries t and the ownerOf(t)
\* read of the pass returned S; every id received by S is read once.
C1_OwnedByExact ==
  \A s \in Slots :
    Stored(s, "my") =>
      LET S == pass[s].userAddress
          received == {BigIntToString(e.tokenId) :
                         e \in {x \in Range(pass[s].events) :
                                  ToLowerCase(x.to) = ToLowerCase(S)}}
      IN  /\ Range(pass[s].cand) = received
          /\ \A n \in TokenIds :
               LET t == BigIntToString(n)
               IN  (t \in Ids(myNFTs)) <=>
                     /\ t \in received
                     /\ \E i \in DOMAIN pass[s].cand :
                          pass[s].cand[i] = t /\ Returned(pass[s].task[i].ownerOf, S)

\* C1 witness: S received two tokens in two events, still owns one of them and
\* has sent the other away; only the first is listed.
C1_Witness ==
  \E s \in Slots :
    /\ Stored(s, "my")
    /\ Len(pass[s].events) = 2 /\ Len(pass[s].cand) = 2
    /\ Len(myNFTs) = 1
    /\ \E i \in DOMAIN pass[s].task :
         Resolved(pass[s].task[i].ownerOf)
         /\ ~Returned(pass[s].task[i].ownerOf, pass[s].userAddress)

\* C2: within one delegated-to pass isApprovedForAll is called at most once
\* for each distinct owner.
C2_OperatorLookupOncePerOwner ==
  \A s \in Slots :
    pass[s].mode = "approved" =>
      \A o \in Accounts :
        Cardinality({i \in DOMAIN pass[s].task :
                       OperatorCallIssued(s, i)
                       /\ ToLowerCase(pass[s].task[i].ownerOf) = ToLowerCase(o)}) <= 1

\* C3: in a delegated-to pass, a token whose getApproved read returned the
\* subject is recorded as 'single' and no isApprovedForAll call is issued on
\* its behalf, whatever the operator approvals of its owner are.
C3_SinglePrecedesOperator ==
  \A s \in Slots :
    pass[s].mode = "approved" =>
      \A i \in DOMAIN pass[s].task :
        Returned(pass[s].task[i].getApproved, pass[s].userAddress) =>
          /\ ~OperatorCallIssued(s, i)
          /\ pass[s].task[i].ret # Null
          /\ pass[s].task[i].ret.approvalType = "single"
          /\ Stored(s, "approved") =>
               \E k \in DOMAIN approvedNFTs :
                 /\ approvedNFTs[k].tokenId = pass[s].cand[i]
                 /\ approvedNFTs[k].approvalType = "single"

\* C3 witness: the stored set holds two tokens of one owner, one 'single' and
\* one 'all': the subject is an operator of that owner and the single-approved
\* token was still classified 'single' without an operator call.
C3_Witness ==
  \E s \in Slots :
    /\ Stored(s, "approved")
    /\ Len(approvedNFTs) = 2
    /\ approvedNFTs[1].owner = approvedNFTs[2].owner
    /\ approvedNFTs[1].approvalType = "single"
    /\ approvedNFTs[2].approvalType = "all"

\* Some isApprovedForAll call of pass s for owner `owner` answered true.
OperatorTrue(s, owner) ==
  \E j \in DOMAIN pass[s].task :
    /\ pass[s].task[j].isApprovedForAll = "true"
    /\ ToLowerCase(pass[s].task[j].ownerOf) = ToLowerCase(owner)

\* C4: after a delegated-to pass every stored record is justified by a read
\* of that pass: 'single' by getApproved returning the subject, 'all' by
\* isApprovedForAll being true for the record's own owner; a candidate with
\* neither is not stored.
C4_DelegatedOnlyIfApproved ==
  \A s \in Slots :
    Stored(s, "approved") =>
      /\ \A k \in DOMAIN approvedNFTs :
           \E i \in DOMAIN pass[s].cand :
             /\ pass[s].cand[i] = approvedNFTs[k].tokenId
             /\ pass[s].task[i].ownerOf = approvedNFTs[k].owner
             /\ \/ /\ approvedNFTs[k].approvalType = "single"
                   /\ Returned(pass[s].task[i].getApproved, pass[s].userAddress)
                \/ /\ approvedNFTs[k].approvalType = "all"
                   /\ OperatorTrue(s, approvedNFTs[k].owner)
      /\ \A i \in DOMAIN pass[s].cand :
           (/\ ~Returned(pass[s].task[i].getApproved, pass[s].userAddress)
            /\ ~OperatorTrue(s, pass[s].task[i].ownerOf))
             => pass[s].cand[i] \notin Ids(approvedNFTs)

\* C4 witness: two candidates of different owners; the subject is an operator
\* of one owner only, so one token is stored as 'all' and the other left out.
C4_Witness ==
  \E s \in Slots :
    /\ Stored(s, "approved")
    /\ Len(pass[s].cand) = 2
    /\ Len(approvedNFTs) = 1 /\ approvedNFTs[1].approvalType = "all"
    /\ pass[s].task[1].ownerOf # pass[s].task[2].ownerOf
    /\ \A i \in DOMAIN pass[s].task : pass[s].task[i].isApprovedForAll \in {"true", "false"}


\* The candidates of pass s whose ownerOf read resolved.
OwnerKnown(s) == {i \in DOMAIN pass[s].task : Resolved(pass[s].task[i].ownerOf)}

\* C5: an ownerOf read that fails during a pass removes exactly its own token:
\* the pass is never failed and raises no alert, and once it has stored its
\* result the result is decided token by token from the other reads (all
\* mode: one record per candidate whose ownerOf resolved), the flag is reset.
C5_OwnerOfFailureExcludesOnlyItsToken ==
  \A s \in Slots :
    /\ (pass[s].mode \in {"my", "all", "approved"}
        /\ \E i \in DOMAIN pass[s].task : pass[s].task[i].ownerOf = Reject)
         => /\ pass[s].outcome # "failed" /\ ~pass[s].alerted
            /\ pass[s].pc = "done" => pass[s].outcome = "stored"
    /\ Stored(s, "all") =>
         /\ Ids(allNFTs) = {pass[s].cand[i] : i \in OwnerKnown(s)}
         /\ Len(allNFTs) = Cardinality(OwnerKnown(s))
         /\ ~isLoadingAllNFTs
    /\ Stored(s, "my") =>
         /\ Ids(myNFTs) = {pass[s].cand[i] :
                             i \in {j \in OwnerKnown(s) :
                                      Returned(pass[s].task[j].ownerOf, pass[s].userAddress)}}
         /\ ~isLoading
    /\ Stored(s, "approved") =>
         /\ Ids(approvedNFTs) = {pass[s].cand[i] :
                                   i \in {j \in OwnerKnown(s) : pass[s].task[j].ret # Null}}
         /\ \A i \in DOMAIN pass[s].task :
              pass[s].task[i].ownerOf = Reject => pass[s].task[i].ret = Null
         /\ ~isLoadingApprovedNFTs

\* C5 witness: an all-tokens pass with two candidates, one of whose ownerOf
\* reads was rejected, has stored the one remaining record.
C5_Witness ==
  \E s \in Slots :
    /\ Stored(s, "all")
    /\ Len(pass[s].cand) = 2
    /\ \E i \in DOMAIN pass[s].task : pass[s].task[i].ownerOf = Reject
    /\ Len(allNFTs) = 1

\* C6: in every mode the candidate set holds each token id carried by the
\* Transfer events exactly once, and a stored result holds at most one record
\* per token id.
C6_CandidateOncePerEventId ==
  \A s \in Slots :
    (pass[s].mode \in {"my", "all", "approved"} /\ pass[s].pc \in {"reads", "done"}
     /\ pass[s].outcome # "failed") =>
      /\ \A e \in Range(pass[s].events) :
           Cardinality({i \in DOMAIN pass[s].cand :
                          pass[s].cand[i] = BigIntToString(e.tokenId)}) = 1
      /\ \A nfts \in {myNFTs, allNFTs, approvedNFTs} :
           Cardinality(Ids(nfts)) = Len(nfts)

Descending(nfts) ==
  \A k \in 1 .. Len(nfts) - 1 : BigInt(nfts[k].tokenId) > BigInt(nfts[k + 1].tokenId)

\* C7: allNFTs and approvedNFTs are stored in strictly descending order of the
\* integer value of tokenId, and the comparator is 0 only for equal ids.
C7_SortedDescendingByMagnitude ==
  /\ Descending(allNFTs)
  /\ Descending(approvedNFTs)
  /\ \A x, y \in TokenIds :
       (CompareTokenIdDesc([tokenId |-> BigIntToString(x)],
                           [tokenId |-> BigIntToString(y)]) = 0) <=> (x = y)

\* C7 witness: the candidates were discovered as 9, 10 and are stored as 10, 9.
C7_Witness ==
  \E s \in Slots :
    /\ Stored(s, "all")
    /\ pass[s].cand = <<BigIntToString(9), BigIntToString(10)>>
    /\ Len(allNFTs) = 2
    /\ allNFTs[1].tokenId = BigIntToString(10) /\ allNFTs[2].tokenId = BigIntToString(9)

\* C8: in every query path a token whose ownerOf read resolved and whose
\* tokenURI read was rejected is still recorded, with the empty string as its
\* tokenURI, and the failure does not fail the query.
C8_TokenURIFailureDefaultsToEmpty ==
  \A s \in Slots :
    \A i \in DOMAIN pass[s].task :
      (pass[s].task[i].pc = "done" /\ Resolved(pass[s].task[i].ownerOf)
       /\ pass[s].task[i].tokenURI = Reject) =>
        /\ pass[s].outcome # "failed" /\ ~pass[s].alerted
        /\ pass[s].mode \in {"my", "all", "token"} =>
             /\ pass[s].task[i].ret # Null
             /\ pass[s].task[i].ret.tokenURI = ""
        /\ (pass[s].mode = "approved" /\ pass[s].task[i].ret # Null) =>
             pass[s].task[i].ret.tokenURI = ""
        /\ Stored(s, "token") => tokenQueryResults = <<pass[s].task[i].ret>>

\* C9 as claimed: a rejected getApproved or isApprovedForAll read excludes the
\* token from the delegated set.
C9_ClassificationFailureExcludes ==
  \A s \in Slots :
    pass[s].mode = "approved" =>
      \A i \in DOMAIN pass[s].task :
        (pass[s].task[i].pc = "done"
         /\ (pass[s].task[i].getApproved = Reject
             \/ pass[s].task[i].isApprovedForAll = Reject))
          => pass[s].task[i].ret = Null

\* C9 amended: a rejected isApprovedForAll read excludes the token; a rejected
\* getApproved read counts as "no single-token approval", so the token is
\* stored only as 'all' and only when an operator lookup for its owner was
\* true; neither rejection fails the pass or raises an alert, and the stored
\* set is made of the tokens the pass classified.
C9_ClassificationFailureIsNoApproval ==
  \A s \in Slots :
    pass[s].mode = "approved" =>
      /\ \A i \in DOMAIN pass[s].task :
           /\ pass[s].task[i].isApprovedForAll = Reject =>
                /\ pass[s].task[i].pc = "done" /\ pass[s].task[i].ret = Null
                /\ pass[s].outcome # "failed" /\ ~pass[s].alerted
           /\ (pass[s].task[i].getApproved = Reject /\ pass[s].task[i].pc = "done") =>
                /\ pass[s].outcome # "failed" /\ ~pass[s].alerted
                /\ pass[s].task[i].ret # Null =>
                     /\ pass[s].task[i].ret.approvalType = "all"
                     /\ OperatorTrue(s, pass[s].task[i].ownerOf)
                /\ pass[s].task[i].ret = Null =>
                     \E j \in DOMAIN pass[s].task :
                       /\ ToLowerCase(pass[s].task[j].ownerOf)
                            = ToLowerCase(pass[s].task[i].ownerOf)
                       /\ pass[s].task[j].isApprovedForAll \in {"false", Reject}
      /\ Stored(s, "approved") =>
           Ids(approvedNFTs) = {pass[s].cand[i] :
                                  i \in {j \in DOMAIN pass[s].task : pass[s].task[j].ret # Null}}

\* C9 witness: a pass stored one token although its getApproved read was
\* rejected, and left out another whose isApprovedForAll read was rejected.
C9_Witness ==
  \E s \in Slots :
    /\ Stored(s, "approved")
    /\ Len(approvedNFTs) = 1
    /\ \E i, j \in DOMAIN pass[s].task :
         /\ pass[s].task[i].getApproved = Reject /\ pass[s].task[i].ret # Null
         /\ pass[s].task[j].isApprovedForAll = Reject /\ pass[s].task[j].ret = Null


(***************************************************************************)
(* Properties of the write handlers.                                       *)
(***************************************************************************)
WriteHandlers == Handlers \ {"handleRefresh"}

\* The text a handler alerts when its catch block gets an empty message.
FailureFallback(h) ==
  CASE h \in {"handleMintWithImage", "handleMintWithURI"} -> AlertMintFailed
    [] h = "handleDelegateTransfer" -> AlertDelegateFailed
    [] h = "handleApprove" -> AlertApproveFailed
    [] h = "handleTransfer" -> AlertTransferFailed

\* The step is the catch block of handler h after its write was rejected at
\* submission ("send") or at confirmation ("wait").
WriteFailure(h) ==
  /\ writer[h].pc \in {"send", "wait"}
  /\ writer'[h].pc = "idle" /\ writer'[h].outcome = "failed"

\* The in-progress flag of handler h is false and its button is enabled.
Retriable(h) ==
  CASE h = "handleMintWithImage" -> ~isMinting /\ ~isUploadingMetadata /\ CanMintWithImage
    [] h = "handleMintWithURI" -> ~isMinting /\ CanMintWithURI
    [] h = "handleDelegateTransfer" ->
         /\ delegateTransferTokenId = NullText
         /\ \E k \in DOMAIN approvedNFTs :
              approvedNFTs[k].tokenId = writer[h].call[4] /\ CanDelegateTransfer(k)
    [] h = "handleApprove" ->
         ~card.isApproving /\ (writer[h].live => isOwner /\ card.showApprove)
    [] h = "handleTransfer" ->
         ~card.isTransferring /\ (writer[h].live => isOwner /\ card.showTransfer)

\* C10: when the write of a handler is rejected, reverts or fails to confirm,
\* the step that handles the failure alerts the error's message (the
\* handler's fallback text when the message is empty), leaves every form
\* input, the open card form and every stored result set as they were, and
\* changes nothing else than the handler's in-progress flag, which becomes
\* false, so the same action is enabled again.
C10_WriteFailureKeepsInputs ==
  [][\A h \in WriteHandlers :
       WriteFailure(h) =>
         /\ alerts' = alerts \cup {AlertText(writer'[h].error, FailureFallback(h))}
         /\ UNCHANGED inputVars
         /\ card'.transferTo = card.transferTo /\ card'.approveTo = card.approveTo
         /\ card'.showTransfer = card.showTransfer /\ card'.showApprove = card.showApprove
         /\ UNCHANGED resultVars
         /\ UNCHANGED <<hasProvider, address, loadingVars, queryVars, dataVars, pass>>
         /\ Retriable(h)'
         /\ \A g \in Handlers \ {h} : writer'[g] = writer[g]]_vars

\* C10 witness: the confirmation wait of an image mint failed with the
\* provider's message; the message was alerted, the form is still filled in
\* and the mint button is enabled again.
C10_Witness ==
  LET w == writer["handleMintWithImage"]
  IN  /\ w.outcome = "failed" /\ w.stage = "wait" /\ w.error = "provider error"
      /\ "provider error" \in alerts
      /\ imageHash = "QmImage" /\ nftName = <<"Art">>
      /\ CanMintWithImage

\* The texts ethers.isAddress accepts: one account address, in either spelling.
ValidAddressTexts == {<<a>> : a \in Accounts} \cup {<<ToLowerCase(a)>> : a \in Accounts}

\* The step calls handler h: it leaves h running or records its refusal.
Called(h) == writer[h].pc = "idle" /\ writer'[h] # writer[h]

\* The input handler h validates is invalid in the state it is called in.
InvalidInput(h) ==
  CASE h = "handleTransfer" -> card.transferTo \notin ValidAddressTexts
    [] h = "handleApprove" -> card.approveTo \notin ValidAddressTexts
    [] h = "handleDelegateTransfer" ->
         \A k \in DOMAIN approvedNFTs :
           Trim(DelegateTarget(approvedNFTs[k].tokenId)) \notin ValidAddressTexts
    [] h = "handleMintWithImage" ->
         address = "" \/ imageHash = NullString \/ Trim(nftName) = <<>>
    [] h = "handleMintWithURI" -> Trim(mintTokenURI) = <<>>

\* The alerts of the validations of handler h.
RefusalTexts(h) ==
  CASE h \in CardHandlers -> {AlertInvalidAddress}
    [] h = "handleDelegateTransfer" -> {AlertEnterRecipient, AlertInvalidEthereumAddress}
    [] h = "handleMintWithImage" -> {AlertConnectFirst, AlertUploadImageFirst, AlertEnterName}
    [] h = "handleMintWithURI" -> {AlertEnterTokenURI}

\* C11: a write handler called with invalid input shows one alert of its
\* validations and returns: it is not left awaiting the wallet, the pinning
\* service or the contract, no call is recorded for it, and no state of the
\* page or of a card changes; called with valid input it goes on to its
\* first await.
C11_InvalidInputRefused ==
  [][\A h \in WriteHandlers :
       Called(h) =>
         IF InvalidInput(h)
           THEN /\ \E text \in RefusalTexts(h) : alerts' = alerts \cup {text}
                /\ writer'[h].pc = "idle" /\ writer'[h].outcome = "refused"
                /\ writer'[h].call = <<>>
                /\ \A g \in Handlers \ {h} : writer'[g] = writer[g]
                /\ card' = card
                /\ UNCHANGED <<hasProvider, address, resultVars, loadingVars, queryVars,
                               pass, dataVars, inputVars, flagVars>>
           ELSE writer'[h].pc \in {"send", "uploadMetadataToIPFS"}]_vars

\* C11 witness: handleMintWithImage was called with an uploaded image and a
\* blank name, and a card handler with a text that is no address; both were
\* refused with their alerts.
C11_Witness ==
  \/ /\ writer["handleMintWithImage"].outcome = "refused"
     /\ address # "" /\ imageHash # NullString /\ nftName = <<" ">>
     /\ alerts = {AlertEnterName}
     /\ ~isUploadingMetadata /\ ~isMinting
  \/ /\ writer["handleTransfer"].outcome = "refused"
     /\ card.transferTo = <<"0xZ">> /\ card.showTransfer /\ ~card.isTransferring
     /\ alerts = {AlertInvalidAddress}




(***************************************************************************)
(* Write transactions in flight.                                           *)
(***************************************************************************)
\* A handler whose transaction is submitted and neither confirmed nor failed.
InFlight(h) == writer[h].pc = "wait"

\* C12: at most one write transaction (mint, transfer, approve, delegated
\* transfer) is submitted and not yet confirmed or failed at any time.
C12_OneWriteInFlight ==
  Cardinality({h \in WriteHandlers : InFlight(h)}) <= 1


(***************************************************************************)
(* The owner of a stored record.                                           *)
(***************************************************************************)
\* The result set a pass of `mode` stores.
ResultSet(mode) ==
  CASE mode = "my" -> myNFTs
    [] mode = "all" -> allNFTs
    [] mode = "approved" -> approvedNFTs
    [] mode = "token" -> tokenQueryResults

\* C14: every record of a stored result set carries as owner the value the
\* ownerOf read of its token id resolved to in the pass that produced the set;
\* the events of the pass contribute the candidate ids only.
C14_OwnerFromLiveRead ==
  \A s \in Slots, mode \in {"my", "all", "approved", "token"} :
    Stored(s, mode) =>
      \A k \in DOMAIN ResultSet(mode) :
        \E i \in DOMAIN pass[s].cand :
          /\ pass[s].cand[i] = ResultSet(mode)[k].tokenId
          /\ Resolved(pass[s].task[i].ownerOf)
          /\ ResultSet(mode)[k].owner = pass[s].task[i].ownerOf

\* C14 witness: the only event of token 9 names 0xA as receiver and the
\* ownerOf read of the pass returned 0xB; the stored record shows 0xB.
C14_Witness ==
  \E s \in Slots :
    /\ Stored(s, "all")
    /\ pass[s].events = <<[to |-> "0xA", tokenId |-> 9]>>
    /\ Len(allNFTs) = 1
    /\ allNFTs[1].tokenId = BigIntToString(9) /\ allNFTs[1].owner = "0xB"


(***************************************************************************)
(* Overlapping passes of one mode.                                         *)
(***************************************************************************)
\* What a pass that has settled all its reads stores.
PassOutput(p) ==
  CASE p.mode = "my" -> NonNull(p.task)
    [] p.mode \in {"all", "approved"} -> ArraySort(NonNull(p.task))
    [] p.mode = "token" -> <<p.task[1].ret>>

\* Pass s stores its result in this step.
Stores(s) == pass[s].pc # "done" /\ pass'[s].pc = "done" /\ pass'[s].outcome = "stored"

\* C18: when two passes of one mode overlap, the pass that stores last
\* replaces what the other one stored, whichever of them started first: after
\* both have finished the result set is the output of the last one to store.
C18_LastToFinishWins ==
  /\ [](\A s \in Slots, mode \in {"my", "all", "approved", "token"} :
          Stored(s, mode) => ResultSet(mode) = PassOutput(pass[s]))
  /\ [][\A s \in Slots : \A r \in Slots \ {s} :
          (Stores(s) /\ Stored(r, pass[s].mode)) =>
             /\ ResultSet(pass[s].mode)' = PassOutput(pass'[s])
             /\ pass'[r].outcome = "superseded"]_vars

\* C18 witness: the pass of the 'all' tab started first and the refresh pass
\* started while it ran; the refresh pass stored one record, then the first
\* pass stored none, and the list is empty.
C18_Witness ==
  /\ Stored("p", "all") /\ pass["q"].mode = "all" /\ pass["q"].outcome = "superseded"
  /\ Len(PassOutput(pass["q"])) = 1 /\ PassOutput(pass["p"]) = <<>>
  /\ allNFTs = <<>>


(***************************************************************************)
(* The one write of a pass.                                                *)
(***************************************************************************)
ListModes == {"my", "all", "approved"}

\* Pass s has been started and has not returned.
Running(s) == pass[s].pc \notin {"idle", "done"}

LoadingFlag(mode) ==
  CASE mode \in {"my", "data"} -> isLoading
    [] mode = "all" -> isLoadingAllNFTs
    [] mode = "approved" -> isLoadingApprovedNFTs
    [] mode = "token" -> isLoadingTokenQuery

PassModes == {"my", "all", "approved", "token", "data"}

\* The call or the pass of slot s returns in this step.
Finishes(s) == pass'[s].pc = "done" /\ pass'[s] # pass[s]

PassStarts(s) == Free(s) /\ pass'[s] # pass[s]

\* The await a handler is suspended at before it awaits `pc`.
Before(h, pc) ==
  IF h = "handleRefresh"
    THEN CASE pc = "loadData" -> "idle"
           [] pc = "loadApprovedNFTs" -> "loadData"
           [] pc = "refreshActiveQuery" -> "loadApprovedNFTs"
           [] OTHER -> "never"
  ELSE IF h = "handleDelegateTransfer"
    THEN CASE pc = "loadApprovedNFTs" -> "wait"
           [] pc = "loadAllNFTs" -> "loadApprovedNFTs"
           [] OTHER -> "never"
  ELSE IF h \in {"handleMintWithImage", "handleMintWithURI"}
    THEN CASE pc = "loadData" -> "wait"
           [] pc = "loadAllNFTs" -> "loadData"
           [] OTHER -> "never"
  ELSE "never"

\* The pass a handler with record w awaits, `target` being the pass of
\* refreshActiveQuery.
AwaitedMode(w, target) ==
  CASE w.pc = "loadData" -> "data"
    [] w.pc = "loadAllNFTs" -> "all"
    [] w.pc = "loadApprovedNFTs" -> "approved"
    [] w.pc = "refreshActiveQuery" -> target
    [] OTHER -> "none"

\* One step of the page, as the refresh after a write prescribes it; the
\* pass of refreshActiveQuery is that of the query mode of the render in
\* which the card's button was pressed or, with `latest`, that of the query
\* mode active when refreshActiveQuery is called.
RefreshOrder(latest) ==
  LET Target(w) == IF latest THEN RefreshTarget(RefreshClosure) ELSE RefreshTarget(w)
  IN
  \* a pass is started only by a handler whose write was confirmed
  /\ \A s \in Slots :
       PassStarts(s) =>
         \E h \in Handlers :
           /\ writer'[h].pc \in PassAwaits /\ writer'[h].slot = s
           /\ writer[h].pc = Before(h, writer'[h].pc)
           /\ pass'[s].mode = AwaitedMode(writer'[h], Target(writer'[h]))
           /\ (h = "handleRefresh" /\ writer[h].pc = "idle") =>
                \E c \in CardHandlers :
                  /\ writer[c].pc = "wait" /\ writer'[c].pc = "idle"
                  /\ writer'[c].outcome = "confirmed"
                  /\ writer'[h].address = writer[c].address
                  /\ writer'[h].activeQuery = writer[c].activeQuery
                  /\ writer'[h].lastQueriedTokenId = writer[c].lastQueriedTokenId
  \* the confirmation wait settles: a failure starts nothing, a confirmation
  \* starts the first pass of the handler's refresh
  /\ \A h \in WriteHandlers :
       (writer[h].pc = "wait" /\ writer'[h].pc # "wait") =>
         IF writer'[h].outcome = "failed"
           THEN pass' = pass /\ writer'["handleRefresh"].pc = writer["handleRefresh"].pc
           ELSE \E s \in Slots :
                  /\ PassStarts(s)
                  /\ pass'[s].mode = IF h = "handleDelegateTransfer" THEN "approved"
                                     ELSE "data"
  \* an awaited pass has returned: the handler makes its next call
  /\ \A h \in Handlers :
       (writer[h].pc \in PassAwaits /\ writer'[h].pc # writer[h].pc) =>
         LET w == writer[h]
             next == IF h = "handleRefresh"
                       THEN CASE w.pc = "loadData" -> "approved"
                              [] w.pc = "loadApprovedNFTs" -> Target(w)
                              [] OTHER -> "none"
                       ELSE IF w.pc = "loadAllNFTs" THEN "none" ELSE "all"
         IN  IF next = "none" THEN pass' = pass /\ writer'[h].pc = "idle"
             ELSE PassStarts(w.slot) /\ pass'[w.slot].mode = next

\* C19 as stated: the last pass of the refresh a card runs is that of the
\* query mode active when it is run.
C19_RefreshOfActiveQuery == [][RefreshOrder(TRUE)]_vars

\* C19: the passes of a refresh are started only when the confirmation wait
\* of a write has resolved, never before and never when the write failed, in
\* the order loadData, loadAllNFTs (mint); loadData, delegated-to pass, the
\* pass of the query mode of the render in which the button was pressed (card
\* transfer or approve); delegated-to pass, loadAllNFTs (delegated transfer).
C19_RefreshAfterConfirmation == [][RefreshOrder(FALSE)]_vars

\* C19 witness: an approval pressed in the 'my' tab was confirmed after the
\* user had opened the 'token' tab, and its refresh has run the owned-by pass.
C19_Witness ==
  /\ writer["handleApprove"].outcome = "confirmed"
  /\ writer["handleRefresh"].pc = "idle" /\ writer["handleRefresh"].outcome = "returned"
  /\ writer["handleRefresh"].activeQuery = "my"
  /\ activeQuery = "token"
  /\ \E s \in Slots : pass[s].mode = "my" /\ pass[s].pc = "done"


(***************************************************************************)
(* The token ids safeMint issues.                                          *)
(***************************************************************************)
\* The receipts of the successful safeMint transactions.
Successes == SelectSeq(chain.receipts, LAMBDA r : r = "success")

\* C17: the k-th successful safeMint issues the id k - 1 (the counter's value
\* when it ran) and raises the counter by one, so the ids are 0, 1, 2, ... in
\* mint order, none is issued twice and the counter is the number of
\* successful mints; a safeMint that reverts changes neither the counter nor
\* an owner nor a token URI.
C17_SequentialTokenIds ==
  /\ [](/\ chain.tokenIdCounter = Len(Successes)
        /\ Len(chain.transfers) = Len(Successes)
        /\ \A k \in DOMAIN chain.transfers : chain.transfers[k].tokenId = k - 1
        /\ DOMAIN chain.owners = 0 .. chain.tokenIdCounter - 1
        /\ DOMAIN chain.tokenURIs = DOMAIN chain.owners)
  /\ [][LET n == Len(chain.receipts)
        IN  Len(chain'.receipts) = n + 1 =>
              IF chain'.receipts[n + 1] = "success"
                THEN /\ chain'.tokenIdCounter = chain.tokenIdCounter + 1
                     /\ DOMAIN chain'.owners = DOMAIN chain.owners \cup {chain.tokenIdCounter}
                     /\ chain.tokenIdCounter \notin DOMAIN chain.owners
                     /\ \A id \in DOMAIN chain.owners :
                          /\ chain'.owners[id] = chain.owners[id]
                          /\ chain'.tokenURIs[id] = chain.tokenURIs[id]
                ELSE /\ chain'.tokenIdCounter = chain.tokenIdCounter
                     /\ chain'.owners = chain.owners
                     /\ chain'.tokenURIs = chain.tokenURIs
                     /\ chain'.transfers = chain.transfers]_vars

\* C17 witness: a mint, a mint to a receiver that rejects the token, and
\* another mint: the ids issued are 0 and 1 and the counter is 2.
C17_Witness ==
  /\ chain.receipts = <<"success", "reverted", "success">>
  /\ chain.tokenIdCounter = 2
  /\ DOMAIN chain.owners = {0, 1}
  /\ chain.tokenURIs[1] = "ipfs://QmMeta"


(***************************************************************************)
(* The metadata of a mint by image and what a card makes of it.            *)
(***************************************************************************)
\* Load k of the card settles in this step: its promise is fulfilled.
LoadSettles(k) ==
  /\ k \in DOMAIN card.loads /\ card.loads[k].pc \in {"fetch", "json"}
  /\ k \in DOMAIN card'.loads /\ card'.loads[k].pc = "fulfilled"

\* C15: a mint by image with name N builds the metadata {name: N,
\* description: N followed by ' NFT' when the description is empty and the
\* description itself otherwise, image: 'ipfs://' + imageHash}; and a card
\* whose token URI is 'ipfs://' + the metadata hash the upload returned, and
\* whose load succeeds, shows metadata.name = N.
C15_MintMetadataRoundTrip ==
  /\ [][(writer["handleMintWithImage"].pc = "idle"
         /\ writer'["handleMintWithImage"].pc = "uploadMetadataToIPFS") =>
          /\ writer'["handleMintWithImage"].metadata.name = nftName
          /\ writer'["handleMintWithImage"].metadata.description =
               (IF nftDescription = <<>> THEN nftName \o <<" NFT">> ELSE nftDescription)
          /\ writer'["handleMintWithImage"].metadata.image = <<"ipfs://", imageHash>>]_vars
  /\ [][\A k \in 1 .. 2, hash \in MetadataHashes :
          (/\ LoadSettles(k) /\ card'.loads[k].error = "none"
           /\ writer["handleMintWithImage"].call =
                <<"safeMint", writer["handleMintWithImage"].address, <<"ipfs://", hash>>>>
           /\ Text(card.loads[k].tokenURI) = <<"ipfs://", hash>>)
          => card'.metadata.name = writer["handleMintWithImage"].metadata.name]_vars

\* C15 witness: the mint of "Art" without a description is confirmed and the
\* card of a token with the minted URI shows the name "Art" and the
\* description "Art NFT".
C15_Witness ==
  LET w == writer["handleMintWithImage"]
  IN  /\ w.outcome = "confirmed"
      /\ w.metadata.name = <<"Art">> /\ w.metadata.description = <<"Art", " NFT">>
      /\ CardMounted
      /\ Text(CardTokenURI) = w.call[3]
      /\ card.metadata # Null /\ card.metadata.name = <<"Art">>
      /\ card.imageUrl = getIPFSGatewayUrl("QmImage")

\* C16: a load whose fetch rejects, whose response is not OK or whose body
\* is not JSON leaves the card with imageUrl = null, metadata = null and
\* isLoadingMetadata = false, whatever the card showed before; its promise
\* is fulfilled and the page sees nothing of it (no alert, no handler or
\* pass changes).
C16_FailedLoadClearsCard ==
  [][\A k \in 1 .. 2 :
       (LoadSettles(k) /\ card'.loads[k].error # "none") =>
         /\ card'.imageUrl = NullText
         /\ card'.metadata = Null
         /\ card'.isLoadingMetadata = FALSE
         /\ card'.loads[k].error \in {"network", "status", "parse"}
         /\ alerts' = alerts /\ writer' = writer /\ pass' = pass]_vars

\* C16 witness: the card had loaded and shown a document, and a later load
\* failed with a status that is not OK: the card shows neither any more.
C16_Witness ==
  /\ Len(card.loads) = 2
  /\ card.loads[1].pc = "fulfilled" /\ card.loads[1].error = "none"
  /\ card.loads[2].pc = "fulfilled" /\ card.loads[2].error = "status"
  /\ card.imageUrl = NullText /\ card.metadata = Null /\ ~card.isLoadingMetadata


(***************************************************************************)
(* The locator of the image against the locator of the document.           *)
(***************************************************************************)
\* The card shows a document it has loaded.
ShowsDocument ==
  /\ card.metadata # Null
  /\ \E k \in DOMAIN card.loads :
       card.loads[k].pc = "fulfilled" /\ card.loads[k].error = "none"

\* C21: for every locator s, the URL shown for a document whose image is s
\* is the URL that is fetched for a token whose URI is s.
C21_ImageNormalizedAsTokenURI ==
  \A s \in Locators :
    (ShowsDocument /\ card.metadata.image = Text(s)) => card.imageUrl = MetadataUrl(s)


(***************************************************************************)
(* Account changes.                                                        *)
(***************************************************************************)
\* C22: while a wallet is connected and no delegated-to pass is in flight,
\* a delegated-to result that a pass has stored was computed for the
\* connected address; and while no wallet is connected approvedNFTs is empty.
C22_ApprovedOfConnectedAccount ==
  /\ (address # "" /\ \A s \in Slots : ~(pass[s].mode = "approved" /\ Running(s))) =>
       \A s \in Slots :
         Stored(s, "approved") => ToLowerCase(pass[s].userAddress) = ToLowerCase(address)
  /\ address = "" => approvedNFTs = <<>>

\* C29: an accountsChanged event without accounts (the address becomes '')
\* clears address, myNFTs, allNFTs, approvedNFTs, delegateTargets,
\* contractInfo and balance; one with accounts sets address to the first,
\* starts loadData and a delegated-to pass with skipAlert for it, and leaves
\* myNFTs, allNFTs and tokenQueryResults as they were.
C29_AccountsChangedFrame ==
  /\ [][(address # "" /\ address' = "") =>
          /\ myNFTs' = <<>> /\ allNFTs' = <<>> /\ approvedNFTs' = <<>>
          /\ delegateTargets' = EmptyMap
          /\ contractInfo' = Null /\ balance' = 0]_vars
  /\ [][(passCount' # passCount) =>
          /\ address' # ""
          /\ \E first \in {accounts[1] : accounts \in AccountLists \ {<<>>}} :
               address' = first
          /\ \E s \in Slots :
               /\ pass'[s].mode = "data" /\ pass'[s].pc = "reads"
               /\ pass'[s].userAddress = address'
          /\ \E s \in Slots :
               /\ pass'[s].mode = "approved" /\ pass'[s].pc = "queryFilter"
               /\ pass'[s].userAddress = address' /\ pass'[s].skipAlert
          /\ isLoading' /\ isLoadingApprovedNFTs'
          /\ UNCHANGED <<myNFTs, allNFTs, tokenQueryResults>>]_vars

\* C29 witness: the wallet switched to another account, whose passes are
\* still running with the lists of the page untouched but for approvedNFTs.
C29_Witness ==
  /\ address = "0xb" /\ passCount = 1
  /\ pass["p"].mode = "data" /\ pass["q"].mode = "approved"
  /\ Running("p") /\ Running("q")
  /\ myNFTs = <<OwnedNFT>> /\ allNFTs = <<OwnedNFT>> /\ tokenQueryResults = <<OwnedNFT>>

\* C29 witness of the other case: the wallet then reported no account.
C29_Cleared ==
  /\ address = "" /\ passCount = 1 /\ Running("q")
  /\ myNFTs = <<>> /\ allNFTs = <<>> /\ approvedNFTs = <<>>
  /\ delegateTargets = EmptyMap /\ contractInfo = Null /\ balance = 0


(***************************************************************************)
(* The loading flags under overlapping passes.                             *)
(***************************************************************************)
\* C23: the loading flag of a mode is true while any pass of the mode is in
\* flight: isLoadingApprovedNFTs while a loadApprovedNFTs call runs,
\* isLoading while a loadAllMyNFTs or a loadData call runs.
C23_FlagWhileInFlight ==
  \A s \in Slots :
    (Running(s) /\ pass[s].mode \in {"my", "data", "approved"}) =>
      LoadingFlag(pass[s].mode) = TRUE


(***************************************************************************)
(* Passes started with their alerts suppressed.                            *)
(***************************************************************************)
\* C25: a pass started with skipAlert / suppressAlerts shows no alert,
\* whichever of its steps fails.
C25_SilentPassNeverAlerts ==
  \A s \in Slots : pass[s].skipAlert => ~pass[s].alerted


(***************************************************************************)
(* A failing event query.                                                  *)
(***************************************************************************)
\* The queryFilter call of pass s rejects in this step.
QueryFilterFails(s) == pass[s].pc = "queryFilter" /\ pass'[s].pc = "done"

\* C28: when the queryFilter call of a pass rejects, the pass ends there: it
\* has issued no per-token read and issues none, the result set of its mode
\* is what it was, and the loading flag of its mode is false.
C28_QueryFailureAbortsPass ==
  /\ [][\A s \in Slots, mode \in ListModes :
          (QueryFilterFails(s) /\ pass[s].mode = mode) =>
            /\ pass'[s].outcome = "failed"
            /\ pass'[s].task = <<>> /\ pass'[s].cand = <<>>
            /\ ResultSet(mode)' = ResultSet(mode)
            /\ LoadingFlag(mode)' = FALSE]_vars
  /\ [](\A s \in Slots :
          (pass[s].mode \in ListModes /\ pass[s].outcome = "failed") =>
            pass[s].pc = "done" /\ pass[s].task = <<>>)

\* C28 witness: the owned-by pass of a refresh failed at its event query;
\* the list still holds the token it held before.
C28_Witness ==
  \E s \in Slots :
    /\ pass[s].mode = "my" /\ pass[s].outcome = "failed" /\ pass[s].task = <<>>
    /\ myNFTs = <<OwnedNFT>> /\ ~isLoading


(***************************************************************************)
(* The token lookup.                                                       *)
(***************************************************************************)
\* The query button calls fetchTokenById in this step.
QueryTokenCalled == passCount' = passCount + 1

\* C30: fetchTokenById with a blank input issues no read and changes no
\* result; a lookup that succeeds makes tokenQueryResults the one record of
\* the trimmed id and lastQueriedTokenId that id; a lookup whose read fails
\* leaves both as they were and isLoadingTokenQuery false.
C30_TokenLookup ==
  /\ [][\A s \in Slots :
          (QueryTokenCalled /\ pass'[s] # pass[s]) =>
            IF Trim(tokenIdInput) = <<>>
              THEN /\ pass'[s].pc = "done" /\ pass'[s].task = <<>>
                   /\ UNCHANGED <<tokenQueryResults, lastQueriedTokenId,
                                  isLoadingTokenQuery>>
              ELSE hasProvider => pass'[s].cand = <<Trim(tokenIdInput)>>]_vars
  /\ [][\A s \in Slots :
          (pass[s].mode = "token" /\ Running(s) /\ pass'[s].pc = "done") =>
            IF pass'[s].outcome = "stored"
              THEN /\ Len(tokenQueryResults') = 1
                   /\ tokenQueryResults'[1].tokenId = pass[s].cand[1]
                   /\ tokenQueryResults'[1].owner = pass'[s].task[1].ownerOf
                   /\ lastQueriedTokenId' = pass[s].cand[1]
                   /\ isLoadingTokenQuery' = FALSE
              ELSE /\ UNCHANGED <<tokenQueryResults, lastQueriedTokenId>>
                   /\ isLoadingTokenQuery' = FALSE]_vars

\* C30 witness: token 9 was typed with a leading blank and looked up while
\* the record of token 10 was shown; the lookup failed and the record of
\* token 10 is still there.
C30_Witness ==
  \E s \in Slots :
    /\ pass[s].mode = "token" /\ pass[s].outcome = "failed"
    /\ pass[s].cand = <<<<"9">>>> /\ pass[s].task[1].ownerOf = Reject
    /\ tokenQueryResults = <<LookedUpNFT>> /\ lastQueriedTokenId = LookedUpNFT.tokenId
    /\ ~isLoadingTokenQuery

\* C30 witness of the successful lookup: the record of token 9 replaced it.
C30_Found ==
  /\ Len(tokenQueryResults) = 1 /\ tokenQueryResults[1].tokenId = <<"9">>
  /\ lastQueriedTokenId = <<"9">> /\ tokenIdInput = <<" ", "9">>


(***************************************************************************)
(* The flag of the delegated transfers.                                    *)
(***************************************************************************)
\* C24: while a delegated transfer of token t is in flight (submitted and
\* neither confirmed nor failed) delegateTransferTokenId is t, so the
\* delegated-transfer button of t is disabled.
C24_PendingTransferKeepsButtonDisabled ==
  \A h \in {"handleDelegateTransfer", EarlierTransfer} \cap DOMAIN writer :
    writer[h].pc \in {"send", "wait"} =>
      /\ delegateTransferTokenId = writer[h].call[4]
      /\ \A k \in DOMAIN approvedNFTs :
           approvedNFTs[k].tokenId = writer[h].call[4] => ~CanDelegateTransfer(k)


(***************************************************************************)
(* The image hash of the mint form and the uploader.                       *)
(***************************************************************************)
\* C26: while the uploader is shown the page's imageHash is the uploader's
\* uploadedHash: it is non-null exactly while the uploader holds the same
\* hash for the file it has selected.
C26_ImageHashIsUploadersHash ==
  UploaderMounted => imageHash = imageUpload.uploadedHash


(***************************************************************************)
(* safeMint is the owner's.                                                *)
(***************************************************************************)
\* C27: the safeMint transaction of a connected wallet that is not the
\* contract's owner reverts and leaves the counter, the owners and the URIs
\* as they were; the handler that sent it takes its failure path (an alert,
\* the form inputs kept, no refresh started), and no token is ever created
\* while such a wallet is connected.
C27_OnlyOwnerMints ==
  /\ [][\A h \in MintHandlers :
          (/\ writer[h].pc = "wait" /\ writer'[h].pc # "wait"
           /\ ~SameAddress(writer[h].address, chain.owner)) =>
            /\ Len(chain'.receipts) = Len(chain.receipts) + 1
            /\ chain'.receipts[Len(chain'.receipts)] = "reverted"
            /\ chain'.tokenIdCounter = chain.tokenIdCounter
            /\ chain'.owners = chain.owners
            /\ chain'.tokenURIs = chain.tokenURIs
            /\ chain'.transfers = chain.transfers
            /\ writer'[h].outcome = "failed"
            /\ \E message \in ErrorMessages :
                 alerts' = alerts \cup {AlertText(message, AlertMintFailed)}
            /\ AlertMintDone \notin alerts'
            /\ UNCHANGED <<inputVars, pass, loadingVars, resultVars, dataVars>>
            /\ ~isMinting' /\ ~isUploadingMetadata']_vars
  /\ [](~SameAddress(address, chain.owner) =>
          /\ chain.tokenIdCounter = 0 /\ DOMAIN chain.owners = {}
          /\ \A h \in MintHandlers :
               /\ writer[h].pc \notin {"loadData", "loadAllNFTs"}
               /\ writer[h].outcome # "confirmed")

C27_Witness ==
  /\ address = "0xb"
  /\ writer["handleMintWithURI"].outcome = "failed"
  /\ writer["handleMintWithURI"].stage = "wait"
  /\ chain.receipts = <<"reverted">>
  /\ chain.tokenIdCounter = 0
  /\ mintTokenURI = <<"ipfs://QmMeta">>
  /\ ~isMinting
  /\ \A s \in Slots : pass[s] = IdlePass

====
